---------------------------- MODULE Spec2Model ----------------------------
(***************************************************************************)
(* A model of the acquisition/ingestion engine of reddit-comment-tracker:  *)
(*   - the fetch client            backend/reddit_scraper.py  _fetch_json  *)
(*   - the ingestion/dedup store   backend/database.py                     *)
(*   - the run lifecycle           backend/reddit_scraper.py  run_scrape   *)
(*   - the sync upload             app.py  api_sync_upload                 *)
(*   - the daily job               backend/scheduler.py  daily_job         *)
(* The specifications share the variables: SpecFetch (one _fetch_json call *)
(* after another, the server choosing every response), SpecStore (the      *)
(* store's write operations called in any order), Spec (run_scrape calls   *)
(* against a source and the store), SpecDiscover and SpecCrawl (the        *)
(* history walk and the comment crawl called on their own), SpecSync       *)
(* (uploads and status updates), SpecAll (all writers of the store and of  *)
(* the log together), SpecConcurrent and SpecOverlap (requests whose store *)
(* calls interleave), SpecWalk (the history walk page by page), SpecConfig *)
(* (runs while the environment is edited), SpecOrphan (the crawl on an     *)
(* empty database), SpecRemote (the sync client's upload) and SpecJobs     *)
(* (the daily job among triggered runs and uploads).                       *)
(***************************************************************************)
EXTENDS Integers, Sequences, FiniteSets, TLC

VARIABLES
    \* ---- _fetch_json ----
    fetch_pc,       \* "idle" | "request" (about to issue session.get) | "done"
    fetch_url,      \* the url argument of the call
    try_idx,        \* position of try_url in urls_to_try (1-based)
    attempt,        \* the inner loop's attempt, 0-based as in range(max_retries)
    last_error,     \* the local last_error: NoError or an error record
    waited,         \* history: sum of the backoff sleeps of this call
    requests,       \* history: the session.get calls of this call, in order
    fetch_result,   \* NoResult, or what the call returned or raised
    \* ---- the store (SQLite tables) ----
    posts,          \* table posts: a set of rows [id, title, first_seen_at]
    comments,       \* table comments: a set of rows [id, post_id, body,
                    \*   first_seen_at, sentiment, reply_status]
    clock,          \* datetime.now(timezone.utc), in ticks
    \* ---- history of the store's callers ----
    post_calls,     \* per post id: the insert_post calls made, in order, each
                    \*   with what it returned and the id's rows before/after
    comment_calls,  \* per comment id: the insert_comment calls made, likewise
    tags,           \* per comment id: the last sentiment / reply_status a
                    \*   caller set with update_comment_* (None: never set)
    \* ---- run_scrape ----
    scrape_log,     \* table scrape_log: a set of rows
    settings,       \* config.settings as imported: TEST_MODE and the credentials
    reddit,         \* the source: what Reddit serves, and which requests fail
    run_pc,         \* "idle" | "try" (inside run_scrape's try block)
    log_id,         \* run_scrape's local log_id
    plan,           \* what the chosen strategy still has to do in this run
    new_comments,   \* the strategy's local new_comments counter
    run_hist,       \* history: the run_scrape calls, in order
    end_calls,      \* history: per log id, the log_scrape_end calls made for it
    \* ---- _discover_posts_from_comments, called on its own ----
    disc_in,        \* the account's comment history, newest first
    disc_out,       \* what the call returned (None: not called yet)
    \* ---- _process_comments, called on its own ----
    crawl_in,       \* the reply tree under the post
    crawl_pc,       \* "idle" | "loop" | "done"
    crawl_plan,     \* the insert_comment calls still to make
    crawl_new,      \* the sum of the new_count locals
    crawl_out,      \* what the top-level call returned (None: not yet)
    \* ---- api_sync_upload ----
    sync_data,      \* the JSON body the sync client posts
    sync_pc,        \* "idle" | "loop" | "status"
    sync_posts,     \* the posts of the body still to insert
    sync_comments,  \* the comments of the body still to handle
    sync_new,       \* the handler's local new_comments
    sync_log_id,    \* the handler's local log_id
    sync_hist,      \* history: the upload requests, in order
    \* ---- the scheduler's daily_job ----
    emailed,        \* the runs (positions in run_hist) whose daily_job has
                    \*   recorded the outcome of its notification
    \* ---- _discover_posts_from_comments, page by page ----
    walk_pages,     \* the server: the page it answers for each cursor
    walk_pc,        \* "idle" | "loop" | "done"
    walk_after,     \* the local after
    walk_reqs,      \* history: the after parameter of each request, in order
    walk_found,     \* the local discovered
    \* ---- the process environment ----
    environ,        \* os.environ: what config.settings would read now
    \* ---- daily_job, from its first statement to its last ----
    job_pc,         \* "idle" | "scrape" (from line 20 to the job's end)
    job_since,      \* the local last_timestamp
    job_mark,       \* history: the number of runs made when the job began
    notified,       \* history: the comment lists passed to send_notification
    \* ---- sync_to_cloud.py, on the scraping machine ----
    remote          \* that machine's store: its tables posts and comments

fetchVars == <<fetch_pc, fetch_url, try_idx, attempt, last_error, waited,
               requests, fetch_result>>

storeVars == <<posts, comments, clock>>

histVars == <<post_calls, comment_calls, tags>>

runVars == <<scrape_log, settings, reddit, run_pc, log_id, plan, new_comments,
             run_hist, end_calls>>

discVars == <<disc_in, disc_out>>

crawlVars == <<crawl_in, crawl_pc, crawl_plan, crawl_new, crawl_out>>

syncVars == <<sync_data, sync_pc, sync_posts, sync_comments, sync_new, sync_log_id,
              sync_hist>>

schedVars == <<emailed>>

walkVars == <<walk_pages, walk_pc, walk_after, walk_reqs, walk_found>>

envVars == <<environ>>

jobVars == <<job_pc, job_since, job_mark, notified>>

remoteVars == <<remote>>

restVars == <<walkVars, envVars, jobVars, remoteVars>>

extVars == <<discVars, crawlVars, syncVars, schedVars, restVars>>

\* The variables of run_scrape other than the log table and its history.
runLocals == <<settings, reddit, run_pc, log_id, plan, new_comments, run_hist>>

vars == <<fetchVars, storeVars, histVars, runVars, extVars>>

-----------------------------------------------------------------------------
(***************************************************************************)
(* The ingestion/dedup store: backend/database.py.  A table is the set of  *)
(* its rows; the primary key is what INSERT OR IGNORE enforces, so that     *)
(* "one row per id" is a property of the operations and not of the          *)
(* representation.  `title` stands for the four columns insert_post binds   *)
(* from post_data (title, subreddit, url, created_utc), `body` for the      *)
(* columns insert_comment binds from comment_data besides id and post_id;   *)
(* the payload values are non-null, as the data model types them.           *)
(***************************************************************************)

PostIds == {"p1", "p2"}
CommentIds == {"c1", "c2"}
Titles == {"a", "b"}
Bodies == {"x", "y"}
Sentiments == {"neutral", "positive"}
ReplyStatuses == {"needs_reply", "replied", "ignored"}

\* The inserts the store specification makes (each reads the clock).
MaxInserts == 3

\* Column defaults of the migration in init_db.
DefaultSentiment == "neutral"
DefaultReplyStatus == "needs_reply"

HasId(table, id) == \E r \in table : r.id = id

\* The calls recorded for an id (none: the empty sequence), and the history
\* with one more call recorded.
Calls(h, id) == IF id \in DOMAIN h THEN h[id] ELSE << >>

Record(h, id, e) ==
    [x \in DOMAIN h \cup {id} |-> IF x = id THEN Append(Calls(h, id), e) ELSE h[x]]

\* The tags callers have set on a comment id so far, and their update.
TagOf(t, id) == IF id \in DOMAIN t THEN t[id] ELSE [sentiment |-> "None", reply_status |-> "None"]

SetTag(t, id, v) == [x \in DOMAIN t \cup {id} |-> IF x = id THEN v ELSE t[x]]

\* The rows of a table that carry the id.
Rows(table, id) == {r \in table : r.id = id}

\* Mutants of the store.
InsertOrIgnore_Replace(table, row) == {r \in table : r.id # row.id} \cup {row}

InsertOrIgnore_NoKey(table, row) == table \cup {row}

ForeignKeyOk_Off(pid) == TRUE

\* INSERT OR IGNORE: the row is added unless a row with its primary key exists.
InsertOrIgnore(table, row) == IF HasId(table, row.id) THEN table ELSE table \cup {row}

\* is_new = cursor.rowcount > 0: whether the statement added a row ("True" or
\* "False": a call's outcome is a string, so that a raised error is one too).
IsNew(table, row) == IF InsertOrIgnore(table, row) # table THEN "True" ELSE "False"

\* PRAGMA foreign_keys = ON with FOREIGN KEY (post_id) REFERENCES posts(id):
\* a row that is inserted must reference a stored post.  The check applies to
\* rows that are inserted: a row ignored for its primary key is not checked.
ForeignKeyOk(pid) == HasId(posts, pid)

PostRow(post_data) ==
    [id |-> post_data.id, title |-> post_data.title, first_seen_at |-> clock]

CommentRow(comment_data) ==
    [id |-> comment_data.id, post_id |-> comment_data.post_id,
     body |-> comment_data.body, first_seen_at |-> clock,
     sentiment |-> DefaultSentiment, reply_status |-> DefaultReplyStatus]

\* What insert_comment does with comment_data: raises sqlite3.IntegrityError
\* (nothing is committed), or returns is_new.
CommentOutcome(comment_data) ==
    IF ~HasId(comments, comment_data.id) /\ ~ForeignKeyOk(comment_data.post_id)
    THEN "IntegrityError"
    ELSE IsNew(comments, CommentRow(comment_data))

\* insert_post(post_data), lines 87-105.
insert_post(post_data) ==
    /\ posts' = InsertOrIgnore(posts, PostRow(post_data))
    /\ clock' = clock + 1
    /\ post_calls' = Record(post_calls, post_data.id,
                             [ret |-> IsNew(posts, PostRow(post_data)),
                              before |-> Rows(posts, post_data.id),
                              after |-> Rows(posts', post_data.id)])
    /\ UNCHANGED <<comments, comment_calls, tags>>

\* insert_comment(comment_data), lines 126-146.
insert_comment(comment_data) ==
    /\ comments' = IF CommentOutcome(comment_data) = "IntegrityError"
                   THEN comments
                   ELSE InsertOrIgnore(comments, CommentRow(comment_data))
    /\ clock' = clock + 1
    /\ comment_calls' = Record(comment_calls, comment_data.id,
                                [ret |-> CommentOutcome(comment_data),
                                 post_id |-> comment_data.post_id,
                                 post_known |-> HasId(posts, comment_data.post_id),
                                 before |-> Rows(comments, comment_data.id),
                                 after |-> Rows(comments', comment_data.id)])
    /\ UNCHANGED <<posts, post_calls, tags>>

\* update_comment_sentiment(comment_id, sentiment), lines 204-209.
update_comment_sentiment(comment_id, sentiment) ==
    /\ comments' = {IF r.id = comment_id THEN [r EXCEPT !.sentiment = sentiment] ELSE r
                      : r \in comments}
    /\ tags' = IF HasId(comments, comment_id)
               THEN SetTag(tags, comment_id, [TagOf(tags, comment_id) EXCEPT !.sentiment = sentiment])
               ELSE tags
    /\ UNCHANGED <<posts, clock, post_calls, comment_calls>>

\* update_comment_reply_status(comment_id, reply_status), lines 212-217.
update_comment_reply_status(comment_id, reply_status) ==
    /\ comments' = {IF r.id = comment_id THEN [r EXCEPT !.reply_status = reply_status] ELSE r
                      : r \in comments}
    /\ tags' = IF HasId(comments, comment_id)
               THEN SetTag(tags, comment_id, [TagOf(tags, comment_id) EXCEPT !.reply_status = reply_status])
               ELSE tags
    /\ UNCHANGED <<posts, clock, post_calls, comment_calls>>

\* init_db on an empty database file.
StoreInit ==
    /\ posts = {}
    /\ comments = {}
    /\ clock = 1
    /\ post_calls = << >>
    /\ comment_calls = << >>
    /\ tags = << >>

PostData == [id : PostIds, title : Titles]
CommentData == [id : CommentIds, post_id : PostIds, body : Bodies]

\* The store's callers, in any order and with any payload.
CallInsertPost ==
    /\ clock <= MaxInserts
    /\ \E post_data \in PostData : insert_post(post_data)
    /\ UNCHANGED <<fetchVars, runVars, extVars>>

CallInsertComment ==
    /\ clock <= MaxInserts
    /\ \E comment_data \in CommentData : insert_comment(comment_data)
    /\ UNCHANGED <<fetchVars, runVars, extVars>>

CallUpdateSentiment ==
    /\ \E id \in CommentIds, s \in Sentiments : update_comment_sentiment(id, s)
    /\ UNCHANGED <<fetchVars, runVars, extVars>>

CallUpdateReplyStatus ==
    /\ \E id \in CommentIds, s \in ReplyStatuses : update_comment_reply_status(id, s)
    /\ UNCHANGED <<fetchVars, runVars, extVars>>

StoreNext ==
    \/ CallInsertPost
    \/ CallInsertComment
    \/ CallUpdateSentiment
    \/ CallUpdateReplyStatus


-----------------------------------------------------------------------------
(***************************************************************************)
(* The fetch client: _fetch_json(url, max_retries=3).                      *)
(***************************************************************************)

max_retries == 3

\* The two shapes of url argument: one that contains 'www.reddit.com' (every
\* url the scraper builds) and one that does not.
Urls == {"www.reddit.com", "other.host"}

\* What one session.get can produce: a status code, or an exception raised by
\* the request.  "500" stands for every status raise_for_status rejects other
\* than 429 and 403; "Timeout" for every requests exception that is not a
\* ConnectionError.
Responses == {"200", "429", "403", "500", "ConnectionError", "Timeout"}

NoError == [kind |-> "None", url |-> "None"]
NoResult == [kind |-> "none"]
AllEndpointsFailed == [kind |-> "AllEndpointsFailed", url |-> "None"]

\* urls_to_try = [url]; the old.reddit.com variant is inserted in front when
\* the url contains www.reddit.com.
urls_to_try(url) ==
    IF url = "www.reddit.com" THEN <<"old.reddit.com", "www.reddit.com">>
    ELSE <<url>>

try_url == urls_to_try(fetch_url)[try_idx]


\* Mutants of the fetch client (each a plausible slip in the code modelled).
Backoff_Flat(a) == 10

BreaksVariant_ConnOnly(resp) == resp = "ConnectionError"

FinalError_Generic(le) == [kind |-> "AllEndpointsFailed", url |-> "None"]

\* wait = 10 * (attempt + 1)
Backoff(a) == 10 * (a + 1)

\* The responses that end the attempts on the current variant by `break`,
\* recording last_error: a 403, or a ConnectionError.
BreaksVariant(resp) == resp \in {"403", "ConnectionError"}

\* The error object a breaking response leaves in last_error.
CapturedError(resp, u) ==
    [kind |-> IF resp = "403" THEN "HTTPError403" ELSE "ConnectionError", url |-> u]

\* The exception that leaves _fetch_json uncaught from inside the loops:
\* raise_for_status's HTTPError, or a request exception other than
\* ConnectionError.
UncaughtError(resp, u) ==
    [kind |-> IF resp = "500" THEN "HTTPError500" ELSE "Timeout", url |-> u]

\* Lines 79-82: after the loops, raise last_error if one was captured, else
\* the generic error.
FinalError(le) == IF le # NoError THEN le ELSE AllEndpointsFailed

\* Leaving the inner loop (by break, or by running out of attempts): the
\* outer loop moves to the next variant, or the function raises.
LeaveVariant(le) ==
    IF try_idx < Len(urls_to_try(fetch_url))
    THEN /\ try_idx' = try_idx + 1
         /\ attempt' = 0
         /\ fetch_pc' = "request"
         /\ fetch_result' = fetch_result
    ELSE /\ try_idx' = try_idx
         /\ attempt' = attempt
         /\ fetch_pc' = "done"
         /\ fetch_result' = [kind |-> "raise", error |-> FinalError(le)]

\* Lines 45-52: a call starts.
FetchCall(url) ==
    /\ fetch_pc = "idle"
    /\ fetch_pc' = "request"
    /\ fetch_url' = url
    /\ try_idx' = 1
    /\ attempt' = 0
    /\ last_error' = NoError
    /\ waited' = 0
    /\ requests' = << >>
    /\ fetch_result' = NoResult
    /\ UNCHANGED <<storeVars, histVars, runVars, extVars>>

\* Lines 54-77: one iteration of the inner loop, the server answering resp.
FetchAttempt(resp) ==
    /\ fetch_pc = "request"
    /\ UNCHANGED <<storeVars, histVars, runVars, extVars>>
    /\ requests' = Append(requests,
                     [url |-> try_url, attempt |-> attempt + 1, resp |-> resp,
                      wait |-> IF resp = "429" THEN Backoff(attempt) ELSE 0])
    /\ fetch_url' = fetch_url
    /\ CASE resp = "429" ->
              /\ waited' = waited + Backoff(attempt)
              /\ last_error' = last_error
              /\ IF attempt + 1 < max_retries
                 THEN /\ attempt' = attempt + 1
                      /\ UNCHANGED <<try_idx, fetch_pc, fetch_result>>
                 ELSE LeaveVariant(last_error)
         [] BreaksVariant(resp) ->
              /\ waited' = waited
              /\ last_error' = CapturedError(resp, try_url)
              /\ LeaveVariant(CapturedError(resp, try_url))
         [] resp = "200" ->
              /\ fetch_pc' = "done"
              /\ fetch_result' = [kind |-> "return", payload |-> try_url]
              /\ UNCHANGED <<try_idx, attempt, last_error, waited>>
         [] OTHER ->
              /\ fetch_pc' = "done"
              /\ fetch_result' = [kind |-> "raise",
                                  error |-> UncaughtError(resp, try_url)]
              /\ UNCHANGED <<try_idx, attempt, last_error, waited>>

\* The caller takes the result; the client is ready for the next call.
FetchDone ==
    /\ fetch_pc = "done"
    /\ fetch_pc' = "idle"
    /\ UNCHANGED <<fetch_url, try_idx, attempt, last_error, waited, requests,
                   fetch_result>>
    /\ UNCHANGED <<storeVars, histVars, runVars, extVars>>

FetchInit ==
    /\ fetch_pc = "idle"
    /\ fetch_url = "www.reddit.com"
    /\ try_idx = 1
    /\ attempt = 0
    /\ last_error = NoError
    /\ waited = 0
    /\ requests = << >>
    /\ fetch_result = NoResult

FetchNext ==
    \/ \E url \in Urls : FetchCall(url)
    \/ \E resp \in Responses : FetchAttempt(resp)
    \/ FetchDone

-----------------------------------------------------------------------------
(***************************************************************************)
(* The source.  `reddit` is what the site serves to one run: the account's *)
(* submitted listing, the pages of its comment history, the comment tree   *)
(* of every post, and the outcome of each request (_fetch_json, or the     *)
(* PRAW call that stands in its place).                                    *)
(***************************************************************************)

\* The comment ids of the largest reply tree, in listing order (a listing is
\* ordered); the source's comments are the first of them.
MaxNodes == 4

CommentOrder == [i \in 1..MaxNodes |-> "c" \o ToString(i)]

Pos(c) == CHOOSE i \in 1..Len(CommentOrder) : CommentOrder[i] = c

NoComment == [present |-> FALSE, post |-> "none", parent |-> "none", kind |-> "none"]

\* A node of a comment tree: a comment (kind t1) or a load-more stub, under a
\* post, its parent the post itself or an earlier comment of the same post.
Nodes ==
    {NoComment} \cup
    [present : {TRUE}, post : PostIds, parent : PostIds \cup CommentIds,
     kind : {"t1", "more"}]

Trees ==
    {w \in [CommentIds -> Nodes] :
        \A c \in CommentIds :
            w[c].present =>
                \/ w[c].parent = w[c].post
                \/ /\ w[c].parent \in CommentIds
                   /\ Pos(w[c].parent) < Pos(c)
                   /\ w[w[c].parent].present
                   /\ w[w[c].parent].kind = "t1"
                   /\ w[w[c].parent].post = w[c].post}

NoTrees == [c \in CommentIds |-> NoComment]

\* Pages of the account's comment history: the link_id of each comment on the
\* page, and whether the page carries an `after` cursor.
MaxHistoryPages == 2

\* A comment of the account's history, as comments.json lists it: the post
\* it is on (link_id), that post's title and subreddit, and the comment's own
\* permalink /r/<sub>/comments/<post>/<slug>/<comment>/, held as the path
\* segments between the slashes.
HistoryComment(p, c, title) ==
    [link_id |-> p, link_title |-> title, subreddit |-> "sub",
     permalink |-> <<"r", "sub", "comments", p, "slug", c>>]

HistoryPages == [links : {<<HistoryComment(p, "c1", "a")>> : p \in PostIds}, after : BOOLEAN]

\* A page without a cursor is the last one the walk requests.
Histories ==
    UNION {{h \in [1..n -> HistoryPages] : \A i \in 1..(n - 1) : h[i].after} :
             n \in 0..MaxHistoryPages}

\* The page whose request fails: its content is never seen.
FailedPage == [links |-> <<HistoryComment("p1", "c1", "a")>>, after |-> FALSE]

\* The outcomes of a request: a payload, or an error raised to the caller.
\* For a post's detail page the payload may also be too short to hold a
\* comment listing ("short"), or hold an empty post listing ("nopost").
FetchErrors == {"403 Client Error", "Timeout"}

AllOk == [p \in PostIds |-> "ok"]

Range(f) == {f[i] : i \in DOMAIN f}

\* The posts of a history, and the sources: a failed listing request; a
\* non-empty submitted listing; an empty one, with a comment history behind
\* it.  Parts of the source that no run can observe are left at a default.
HistoryPosts(h) == UNION {{c.link_id : c \in Range(h[i].links)} : i \in DOMAIN h}

Sources ==
    {[listing_fetch |-> e, submitted |-> << >>, history |-> << >>,
      history_fail |-> 0, detail |-> AllOk, tree |-> NoTrees] : e \in FetchErrors}
    \cup
    {[listing_fetch |-> "ok", submitted |-> sub, history |-> << >>,
      history_fail |-> 0, detail |-> d, tree |-> w] :
        sub \in {<<"p1">>, <<"p1", "p2">>},
        d \in [PostIds -> {"ok", "fail", "short"}],
        w \in Trees}
    \cup
    {[listing_fetch |-> "ok", submitted |-> << >>, history |-> h,
      history_fail |-> Len(h), detail |-> AllOk, tree |-> NoTrees] :
        h \in {g \in Histories : g # << >> /\ g[Len(g)] = FailedPage}}
    \cup
    {[listing_fetch |-> "ok", submitted |-> << >>, history |-> h,
      history_fail |-> 0, detail |-> d, tree |-> w] :
        h \in Histories,
        d \in [PostIds -> {"ok", "nopost", "fail", "short"}],
        w \in Trees}

\* The posts whose comment tree a run can get to see.
Visible(src) ==
    {p \in Range(src.submitted) \cup HistoryPosts(src.history) : src.detail[p] \in {"ok", "nopost"}}

\* One source for each thing a run can see: the detail page of a post no
\* listing names is never requested, a comment on a post whose detail page
\* is not read is never listed, and a cursor on the last page of the history
\* leads to an empty page, which ends the walk as no cursor does.
Canonical(src) ==
    /\ \A p \in PostIds :
         p \notin Range(src.submitted) \cup HistoryPosts(src.history) => src.detail[p] = "ok"
    /\ \A c \in CommentIds : src.tree[c].present => src.tree[c].post \in Visible(src)
    /\ src.history # << >> => ~src.history[Len(src.history)].after

-----------------------------------------------------------------------------
(***************************************************************************)
(* The strategies.  What a strategy does to the store is a function of the *)
(* source alone (only its counter depends on what the store answers), so   *)
(* each strategy is the sequence of store calls it makes, ended by the     *)
(* posts_found it returns or by the error it raises; run_scrape carries    *)
(* the calls out one by one.                                               *)
(***************************************************************************)

Op(op, id, post_id, n) == [op |-> op, id |-> id, post_id |-> post_id, n |-> n]

InsertPostOp(p) == Op("insert_post", p, "none", 0)
InsertCommentOp(c, p) == Op("insert_comment", c, p, 0)
RaiseOp(e) == Op("raise", e, "none", 0)
ReturnOp(n) == Op("return", "none", "none", n)

\* Mutant of the counting: every insert is counted.
CountNew_All(is_new) == 1

\* if is_new: new_count += 1
CountNew(is_new) == IF is_new = "True" THEN 1 ELSE 0

\* A listing's children: the nodes under a parent, in listing order.
Children(w, parent) ==
    SelectSeq(CommentOrder,
              LAMBDA c : c \in DOMAIN w /\ w[c].present /\ w[c].parent = parent)

\* Mutant of the crawler: the replies are not descended into.
RECURSIVE process_comments_Flat(_, _, _)
process_comments_Flat(w, comment_listing, post_id) ==
    IF comment_listing = << >> THEN << >>
    ELSE (IF w[Head(comment_listing)].kind # "t1" THEN << >>
          ELSE <<InsertCommentOp(Head(comment_listing), post_id)>>)
         \o process_comments_Flat(w, Tail(comment_listing), post_id)

\* _process_comments(comment_listing, post_id): items of another kind than t1
\* are skipped; a comment is inserted, then its replies are processed.
RECURSIVE process_comments(_, _, _)
process_comments(w, comment_listing, post_id) ==
    IF comment_listing = << >> THEN << >>
    ELSE LET item == Head(comment_listing)
             rest == process_comments(w, Tail(comment_listing), post_id)
         IN  IF w[item].kind # "t1" THEN rest
             ELSE <<InsertCommentOp(item, post_id)>>
                    \o process_comments(w, Children(w, item), post_id)
                    \o rest

\* for _ in range(5)
MAX_PAGES == 5

\* Mutant of the discovery: no test for a link_id that is already there, so a
\* later comment on the same post takes the entry over.
RECURSIVE AddLinks_LastWins(_, _)
AddLinks_LastWins(discovered, links) ==
    IF links = << >> THEN discovered
    ELSE LET comment == Head(links)
             others == SelectSeq(discovered, LAMBDA d : d.link_id # comment.link_id)
         IN  AddLinks_LastWins(
                 Append(others, [link_id |-> comment.link_id,
                                 permalink |-> SubSeq(comment.permalink, 1, 5),
                                 title |-> comment.link_title,
                                 subreddit |-> comment.subreddit]),
                 Tail(links))

\* Lines 103-121, the loop over a page's children: a comment whose link_id
\* is not in discovered yet adds an entry, its permalink the first five path
\* segments of the comment's (if the comment's has that many).  discovered
\* is a dict: its entries in order of insertion.
RECURSIVE AddLinks(_, _)
AddLinks(discovered, links) ==
    IF links = << >> THEN discovered
    ELSE LET comment == Head(links)
         IN  AddLinks(IF /\ comment.link_id # ""
                         /\ comment.link_id \notin {d.link_id : d \in Range(discovered)}
                         /\ Len(comment.permalink) >= 5
                      THEN Append(discovered,
                                  [link_id |-> comment.link_id,
                                   permalink |-> SubSeq(comment.permalink, 1, 5),
                                   title |-> comment.link_title,
                                   subreddit |-> comment.subreddit])
                      ELSE discovered,
                      Tail(links))

\* _discover_posts_from_comments(): the entries discovered on the pages
\* walked, or the error of the page request that failed.
RECURSIVE DiscoverWalk(_, _, _)
DiscoverWalk(src, i, discovered) ==
    IF i > MAX_PAGES THEN [err |-> "none", discovered |-> discovered]
    ELSE IF i = src.history_fail THEN [err |-> "Timeout", discovered |-> << >>]
    ELSE LET page == IF i <= Len(src.history) THEN src.history[i]
                     ELSE [links |-> << >>, after |-> FALSE]
         IN  IF page.links = << >> THEN [err |-> "none", discovered |-> discovered]
             ELSE IF ~page.after
                  THEN [err |-> "none", discovered |-> AddLinks(discovered, page.links)]
                  ELSE DiscoverWalk(src, i + 1, AddLinks(discovered, page.links))

discover_posts_from_comments(src) == DiscoverWalk(src, 1, << >>)

\* _scrape_with_json, lines 153-188: a discovered post whose detail request
\* fails or is too short is skipped; else the post is inserted (from the
\* detail page, or from the comment's metadata when the page lists no post)
\* and its comment listing processed.
RECURSIVE DiscoveredPosts(_, _)
DiscoveredPosts(src, ps) ==
    IF ps = << >> THEN << >>
    ELSE LET p == Head(ps).link_id
         IN  (IF src.detail[p] \in {"fail", "short"} THEN << >>
              ELSE <<InsertPostOp(p)>>
                     \o process_comments(src.tree, Children(src.tree, p), p))
             \o DiscoveredPosts(src, Tail(ps))

\* Mutant of the normal path: the failed detail request is not caught.
RECURSIVE SubmittedPosts_Abort(_, _)
SubmittedPosts_Abort(src, ps) ==
    IF ps = << >> THEN << >>
    ELSE LET p == Head(ps)
         IN  IF src.detail[p] = "fail" THEN <<InsertPostOp(p), RaiseOp("Timeout")>>
             ELSE <<InsertPostOp(p)>>
                  \o (IF src.detail[p] = "short" THEN << >>
                      ELSE process_comments(src.tree, Children(src.tree, p), p))
                  \o SubmittedPosts_Abort(src, Tail(ps))

\* _scrape_with_json, lines 190-214: every submitted post is inserted; its
\* comments are processed unless the detail request fails or is too short.
RECURSIVE SubmittedPosts(_, _)
SubmittedPosts(src, ps) ==
    IF ps = << >> THEN << >>
    ELSE LET p == Head(ps)
         IN  <<InsertPostOp(p)>>
             \o (IF src.detail[p] \in {"fail", "short"} THEN << >>
                 ELSE process_comments(src.tree, Children(src.tree, p), p))
             \o SubmittedPosts(src, Tail(ps))

scrape_with_json(src) ==
    IF src.listing_fetch # "ok" THEN <<RaiseOp(src.listing_fetch)>>
    ELSE IF src.submitted = << >>
    THEN LET d == discover_posts_from_comments(src)
         IN  IF d.err # "none" THEN <<RaiseOp(d.err)>>
             ELSE DiscoveredPosts(src, d.discovered) \o <<ReturnOp(Len(d.discovered))>>
    ELSE SubmittedPosts(src, src.submitted) \o <<ReturnOp(Len(src.submitted))>>

\* seen_posts: the posts of the comment history, by link_id.
LinkIds(discovered) == [i \in DOMAIN discovered |-> discovered[i].link_id]

\* submission.comments.list() after replace_more: the comments of the post.
PrawComments(w, p) ==
    SelectSeq(CommentOrder,
              LAMBDA c : /\ c \in DOMAIN w
                         /\ w[c].present /\ w[c].post = p /\ w[c].kind = "t1")

InsertAll(cs, p) == [i \in 1..Len(cs) |-> InsertCommentOp(cs[i], p)]

\* _scrape_with_praw, lines 289-315.  No API error is caught: a listed
\* submission is inserted before its comments are requested, a submission
\* found through a comment is loaded (its title read) before it is inserted.
RECURSIVE PrawSubmissions(_, _, _)
PrawSubmissions(src, ps, lazy) ==
    IF ps = << >> THEN <<ReturnOp(0)>>
    ELSE LET p == Head(ps)
         IN  IF src.detail[p] = "fail"
             THEN (IF lazy THEN << >> ELSE <<InsertPostOp(p)>>) \o <<RaiseOp("APIException")>>
             ELSE <<InsertPostOp(p)>> \o InsertAll(PrawComments(src.tree, p), p)
                    \o PrawSubmissions(src, Tail(ps), lazy)

\* The plan with the posts_found of its final return set to n.
Returning(pl, n) ==
    [i \in 1..Len(pl) |-> IF pl[i].op = "return" THEN ReturnOp(n) ELSE pl[i]]

scrape_with_praw(src) ==
    IF src.listing_fetch # "ok" THEN <<RaiseOp(src.listing_fetch)>>
    ELSE IF src.submitted = << >>
    THEN LET d == discover_posts_from_comments(src)
         IN  IF d.err # "none" THEN <<RaiseOp(d.err)>>
             ELSE Returning(PrawSubmissions(src, LinkIds(d.discovered), TRUE),
                            Len(d.discovered))
    ELSE Returning(PrawSubmissions(src, src.submitted, FALSE), Len(src.submitted))

\* _scrape_mock: posts_found = random.randint(3, 6) posts with
\* random.randint(0, 5) comments each, their ids built from int(base_time).
\* The sizes are scaled down to MockNumPosts posts and 0..MockMaxComments
\* comments.
MockNumPosts == 1
MockMaxComments == 1
TicksPerSecond == 4

MockPostId(base_time, i) == "t3_mock_" \o ToString(base_time) \o "_" \o ToString(i)

MockCommentId(base_time, i, j) ==
    "t1_mock_" \o ToString(base_time) \o "_" \o ToString(i) \o "_" \o ToString(j)

RECURSIVE MockPosts(_, _, _)
MockPosts(base_time, num_comments, i) ==
    IF i >= Len(num_comments) THEN << >>
    ELSE <<InsertPostOp(MockPostId(base_time, i))>>
         \o [j \in 1..num_comments[i + 1] |->
               InsertCommentOp(MockCommentId(base_time, i, j - 1), MockPostId(base_time, i))]
         \o MockPosts(base_time, num_comments, i + 1)

scrape_mock(now) ==
    {MockPosts(now \div TicksPerSecond, num_comments, 0) \o <<ReturnOp(Len(num_comments))>> :
        num_comments \in [1..MockNumPosts -> 0..MockMaxComments]}

-----------------------------------------------------------------------------
(***************************************************************************)
(* _discover_posts_from_comments called on its own, on a comment history   *)
(* that Reddit serves in pages of PageSize comments (limit=100, scaled     *)
(* down), each page but the last with an `after` cursor.                   *)
(***************************************************************************)

PageSize == 2
MaxHistoryComments == 4

DiscLinkIds == {"p1", "p2", "p3"}

DiscComments ==
    {HistoryComment(p, "c1", "a") : p \in DiscLinkIds}
    \cup {HistoryComment(p, "c2", "b") : p \in DiscLinkIds}

DiscHistories == UNION {[1..n -> DiscComments] : n \in 0..MaxHistoryComments}

RECURSIVE Paginate(_, _)
Paginate(cs, k) ==
    IF cs = << >> THEN << >>
    ELSE IF Len(cs) <= k THEN <<[links |-> cs, after |-> FALSE]>>
    ELSE <<[links |-> SubSeq(cs, 1, k), after |-> TRUE]>>
           \o Paginate(SubSeq(cs, k + 1, Len(cs)), k)

None == "None"

CallDiscover ==
    /\ disc_out = None
    /\ disc_out' = discover_posts_from_comments(
                       [history |-> Paginate(disc_in, PageSize),
                        history_fail |-> 0]).discovered
    /\ UNCHANGED <<disc_in, crawlVars, syncVars, schedVars, restVars, fetchVars, storeVars, histVars, runVars>>

DiscInit ==
    /\ disc_in = << >>
    /\ disc_out = None

-----------------------------------------------------------------------------
(***************************************************************************)
(* _process_comments called on its own: on the comment listing of post p1, *)
(* which is stored, some of the comments being stored already.             *)
(***************************************************************************)

CrawlIds == Range(CommentOrder)

CrawlNodes ==
    {NoComment} \cup
    [present : {TRUE}, post : {"p1"}, parent : {"p1"} \cup CrawlIds, kind : {"t1", "more"}]

\* The reply trees of up to MaxNodes nodes: a node's parent is the post or an
\* earlier comment (a load-more stub has no replies).
CrawlTrees ==
    {w \in [CrawlIds -> CrawlNodes] :
        \A c \in CrawlIds :
            w[c].present =>
                /\ Pos(c) > 1 => w[CommentOrder[Pos(c) - 1]].present
                /\ \/ w[c].parent = "p1"
                   \/ /\ w[c].parent \in CrawlIds
                      /\ Pos(w[c].parent) < Pos(c)
                      /\ w[w[c].parent].kind = "t1"}

StoredBefore(ids) ==
    {[id |-> c, post_id |-> "p1", body |-> "x", first_seen_at |-> 0,
      sentiment |-> DefaultSentiment, reply_status |-> DefaultReplyStatus] : c \in ids}

\* The top-level call _process_comments(comment_listing, 'p1').
CrawlCall ==
    /\ crawl_pc = "idle"
    /\ crawl_pc' = "loop"
    /\ crawl_plan' = process_comments(crawl_in, Children(crawl_in, "p1"), "p1")
    /\ crawl_new' = 0
    /\ UNCHANGED <<crawl_in, crawl_out, discVars, syncVars, schedVars, restVars, fetchVars, storeVars, histVars,
                   runVars>>

\* Lines 229-240: the next insert_comment and its count.  Nothing in
\* _process_comments catches what insert_comment raises: an IntegrityError
\* leaves the loop and every caller's loop.
CrawlInsert ==
    /\ crawl_pc = "loop"
    /\ crawl_plan # << >>
    /\ LET comment_data == [id |-> Head(crawl_plan).id, post_id |-> Head(crawl_plan).post_id,
                            body |-> "x"]
       IN  /\ insert_comment(comment_data)
           /\ IF CommentOutcome(comment_data) = "IntegrityError"
              THEN /\ crawl_pc' = "done"
                   /\ crawl_out' = "IntegrityError"
                   /\ UNCHANGED <<crawl_new, crawl_plan>>
              ELSE /\ crawl_new' = crawl_new + CountNew(CommentOutcome(comment_data))
                   /\ crawl_plan' = Tail(crawl_plan)
                   /\ UNCHANGED <<crawl_pc, crawl_out>>
    /\ UNCHANGED <<crawl_in, discVars, syncVars, schedVars, restVars, fetchVars, runVars>>

\* Line 249: return new_count.
CrawlReturn ==
    /\ crawl_pc = "loop"
    /\ crawl_plan = << >>
    /\ crawl_pc' = "done"
    /\ crawl_out' = crawl_new
    /\ UNCHANGED <<crawl_in, crawl_plan, crawl_new, discVars, syncVars, schedVars, restVars, fetchVars,
                   storeVars, histVars, runVars>>

CrawlNext ==
    \/ CrawlCall
    \/ CrawlInsert
    \/ CrawlReturn

CrawlIdle ==
    /\ crawl_pc = "idle"
    /\ crawl_plan = << >>
    /\ crawl_new = 0
    /\ crawl_out = None

CrawlInit ==
    /\ CrawlIdle
    /\ crawl_in = [c \in CrawlIds |-> NoComment]


-----------------------------------------------------------------------------
(***************************************************************************)
(* The run lifecycle: run_scrape and the scrape_log table.                 *)
(***************************************************************************)

MaxRuns == 2

Settings == [TEST_MODE : BOOLEAN, REDDIT_CLIENT_ID : BOOLEAN, REDDIT_CLIENT_SECRET : BOOLEAN]

\* Lines 393-398: mock when TEST_MODE, PRAW when both credentials are set,
\* the public JSON endpoints otherwise.
Strategy(cfg) ==
    IF cfg.TEST_MODE THEN "mock"
    ELSE IF cfg.REDDIT_CLIENT_ID /\ cfg.REDDIT_CLIENT_SECRET THEN "praw"
    ELSE "json"

\* Mutant of run_scrape: when the authenticated strategy fails, the
\* public-endpoint strategy is run.
StrategyPlans_Fallback(strategy, src, now) ==
    CASE strategy = "mock" -> scrape_mock(now)
      [] strategy = "praw" ->
           LET pl == scrape_with_praw(src)
           IN  {IF pl[Len(pl)].op = "raise"
                THEN SubSeq(pl, 1, Len(pl) - 1) \o scrape_with_json(src)
                ELSE pl}
      [] OTHER -> {scrape_with_json(src)}

StrategyPlans(strategy, src, now) ==
    CASE strategy = "mock" -> scrape_mock(now)
      [] strategy = "praw" -> {scrape_with_praw(src)}
      [] OTHER -> {scrape_with_json(src)}

\* AUTOINCREMENT: one more than the largest id ever used (no row is deleted).
NextLogId(log) == IF log = {} THEN 1 ELSE 1 + CHOOSE m \in {r.id : r \in log} :
                                                 \A r \in log : r.id <= m

\* log_scrape_start(), lines 338-349.
log_scrape_start(id) ==
    /\ scrape_log' = scrape_log \cup
          {[id |-> id, started_at |-> clock, completed_at |-> 0, posts_found |-> 0,
            new_comments_found |-> 0, status |-> "running",
            error_message |-> "NULL", email_sent |-> 0]}
    /\ end_calls' = end_calls

\* log_scrape_end(log_id, posts_found, new_comments_found, status,
\* error_message, email_sent), lines 352-370.
log_scrape_end(id, posts_found, new_comments_found, status, error_message, email_sent) ==
    /\ scrape_log' =
         {IF r.id = id
          THEN [r EXCEPT !.completed_at = clock, !.posts_found = posts_found,
                         !.new_comments_found = new_comments_found,
                         !.status = status, !.error_message = error_message,
                         !.email_sent = IF email_sent THEN 1 ELSE 0]
          ELSE r : r \in scrape_log}
    /\ end_calls' = [x \in DOMAIN end_calls \cup {id} |->
                       IF x = id THEN (IF id \in DOMAIN end_calls THEN end_calls[id] ELSE 0) + 1
                       ELSE end_calls[x]]

\* Lines 409-414: str(e), with the hint about cloud IPs when it contains '403'.
ErrorMessage(e) ==
    IF e = "403 Client Error" THEN e \o " - Reddit may be blocking requests from cloud IPs."
    ELSE e

\* Mutants of run_scrape.
ExceptHandler_NoLog(e) == UNCHANGED <<scrape_log, end_calls>>

ExceptHandler_Partial(e) ==
    log_scrape_end(log_id, Cardinality(posts), new_comments, "error", ErrorMessage(e), FALSE)

\* Lines 408-415: the except clause finalizes the record with the defaults
\* posts_found=0, new_comments_found=0.
ExceptHandler(e) == log_scrape_end(log_id, 0, 0, "error", ErrorMessage(e), FALSE)

Finish(outcome, posts_found, new, err) ==
    run_hist' = [run_hist EXCEPT ![Len(run_hist)] =
                    [@ EXCEPT !.outcome = outcome, !.posts_found = posts_found,
                              !.new_comments = new, !.error = err,
                              !.posts_after = posts, !.comments_after = comments]]

\* History: the store call the strategy of the current run has just made.
Called(op) ==
    run_hist' = [run_hist EXCEPT ![Len(run_hist)].calls = Append(@, op)]

\* run_scrape, lines 390-398: the record is created and the strategy chosen.
RunScrapeStart ==
    /\ run_pc = "idle"
    /\ Len(run_hist) < MaxRuns
    /\ log_scrape_start(NextLogId(scrape_log))
    /\ log_id' = NextLogId(scrape_log)
    /\ clock' = clock + 1
    /\ plan' \in StrategyPlans(Strategy(settings), reddit, clock + 1)
    /\ new_comments' = 0
    /\ run_pc' = "try"
    /\ run_hist' = Append(run_hist,
                     [log_id |-> NextLogId(scrape_log), strategy |-> Strategy(settings),
                      settings |-> settings, now |-> clock + 1, calls |-> << >>,
                      source |-> reddit, outcome |-> "running", posts_found |-> 0,
                      new_comments |-> 0, error |-> "none",
                      posts_before |-> posts, comments_before |-> comments,
                      posts_after |-> posts, comments_after |-> comments])
    /\ UNCHANGED <<posts, comments, histVars, settings, reddit, fetchVars, extVars>>

\* The strategy's next insert_post.
RunInsertPost ==
    /\ run_pc = "try"
    /\ Head(plan).op = "insert_post"
    /\ insert_post([id |-> Head(plan).id, title |-> "a"])
    /\ plan' = Tail(plan)
    /\ Called(Head(plan))
    /\ UNCHANGED <<scrape_log, settings, reddit, run_pc, log_id, new_comments,
                   end_calls, fetchVars, extVars>>

\* The strategy's next insert_comment; an IntegrityError leaves the strategy.
RunInsertComment ==
    /\ run_pc = "try"
    /\ Head(plan).op = "insert_comment"
    /\ LET comment_data == [id |-> Head(plan).id, post_id |-> Head(plan).post_id, body |-> "x"]
       IN  /\ insert_comment(comment_data)
           /\ IF CommentOutcome(comment_data) = "IntegrityError"
              THEN /\ plan' = <<RaiseOp("IntegrityError")>>
                   /\ new_comments' = new_comments
              ELSE /\ plan' = Tail(plan)
                   /\ new_comments' = new_comments + CountNew(CommentOutcome(comment_data))
    /\ Called(Head(plan))
    /\ UNCHANGED <<scrape_log, settings, reddit, run_pc, log_id, end_calls,
                   fetchVars, extVars>>

\* Lines 400-406: the strategy returned; the record is finalized, the pair
\* returned.
RunScrapeReturn ==
    /\ run_pc = "try"
    /\ Head(plan).op = "return"
    /\ log_scrape_end(log_id, Head(plan).n, new_comments, "success", "NULL", FALSE)
    /\ clock' = clock + 1
    /\ Finish("returned", Head(plan).n, new_comments, "none")
    /\ run_pc' = "idle"
    /\ plan' = << >>
    /\ UNCHANGED <<posts, comments, histVars, settings, reddit, log_id, new_comments,
                   fetchVars, extVars>>

\* Lines 408-416: the strategy raised; the except clause runs and re-raises.
RunScrapeRaise ==
    /\ run_pc = "try"
    /\ Head(plan).op = "raise"
    /\ ExceptHandler(Head(plan).id)
    /\ clock' = clock + 1
    /\ Finish("raised", 0, 0, Head(plan).id)
    /\ run_pc' = "idle"
    /\ plan' = << >>
    /\ UNCHANGED <<posts, comments, histVars, settings, reddit, log_id, new_comments,
                   fetchVars, extVars>>

\* Between two runs the source moves on: a comment appears under a post, or
\* the listing request starts to fail.
SourceChanges ==
    /\ run_pc = "idle"
    /\ run_hist # << >>
    /\ Len(run_hist) < MaxRuns
    /\ Strategy(settings) # "mock"
    /\ \/ \E c \in CommentIds, p \in Visible(reddit) :
            /\ ~reddit.tree[c].present
            /\ reddit' = [reddit EXCEPT !.tree[c] =
                             [present |-> TRUE, post |-> p, parent |-> p, kind |-> "t1"]]
       \/ \E e \in FetchErrors :
            /\ reddit.listing_fetch = "ok"
            /\ reddit' = [reddit EXCEPT !.listing_fetch = e]
    /\ UNCHANGED <<fetchVars, extVars, storeVars, histVars, scrape_log, settings, run_pc, log_id,
                   plan, new_comments, run_hist, end_calls>>

RunIdle ==
    /\ scrape_log = {}
    /\ run_pc = "idle"
    /\ log_id = 0
    /\ plan = << >>
    /\ new_comments = 0
    /\ run_hist = << >>
    /\ end_calls = << >>

DefaultSource == CHOOSE src \in Sources : src.listing_fetch = "Timeout"

RunInit ==
    /\ RunIdle
    /\ settings = [TEST_MODE |-> FALSE, REDDIT_CLIENT_ID |-> FALSE,
                   REDDIT_CLIENT_SECRET |-> FALSE]
    /\ reddit = DefaultSource

RunNext ==
    \/ RunScrapeStart
    \/ RunInsertPost
    \/ RunInsertComment
    \/ RunScrapeReturn
    \/ RunScrapeRaise
    \/ SourceChanges

-----------------------------------------------------------------------------
(***************************************************************************)
(* api_sync_upload (src/app.py): the sync client posts a body of posts and *)
(* comments; the handler merges it into the store under a scrape_log       *)
(* record.  Every statement of the handler commits on its own.             *)
(***************************************************************************)

MaxUploads == 2

\* A comment of the body: no reply_status ("None"), the default, or another.
SyncStatuses == {"None", "needs_reply", "replied"}

SyncComments == [id : CommentIds, post_id : PostIds, body : {"x"}, reply_status : SyncStatuses]

SyncPosts == {<< >>, <<[id |-> "p1", title |-> "a"]>>, <<[id |-> "p2", title |-> "a"]>>,
              <<[id |-> "p1", title |-> "a"], [id |-> "p2", title |-> "a"]>>}

\* The bodies: an empty JSON object, or posts and comments (each comment id
\* once).
EmptyBody == [empty |-> TRUE, posts |-> << >>, comments |-> << >>]

SyncBodies ==
    {EmptyBody} \cup
    [empty : {FALSE}, posts : SyncPosts,
     comments : {cs \in UNION {[1..n -> SyncComments] : n \in 0..Cardinality(CommentIds)} :
                    \A i, j \in DOMAIN cs : cs[i].id = cs[j].id => i = j}]

\* comment.get('reply_status') and comment['reply_status'] != 'needs_reply'
Overrides(comment) == comment.reply_status \notin {"None", "needs_reply"}

\* Mutant of the handler: the status is applied to new comments only.
AppliesStatus_NewOnly(comment, is_new) == Overrides(comment) /\ is_new = "True"

\* Lines 497-499: the test does not look at what insert_comment returned.
AppliesStatus(comment, is_new) == Overrides(comment)

SyncEntry(outcome, id) ==
    [outcome |-> outcome, log_id |-> id, body |-> sync_data, posts_synced |-> 0,
     new_comments |-> 0, handled |-> << >>,
     posts_before |-> posts, comments_before |-> comments,
     posts_after |-> posts, comments_after |-> comments]

SyncEnded(outcome, posts_synced, new) ==
    sync_hist' = [sync_hist EXCEPT ![Len(sync_hist)] =
                    [@ EXCEPT !.outcome = outcome, !.posts_synced = posts_synced,
                              !.new_comments = new,
                              !.posts_after = posts, !.comments_after = comments]]

SyncHandled(comment) ==
    sync_hist' = [sync_hist EXCEPT ![Len(sync_hist)].handled = Append(@, comment)]

\* Lines 477-479: no or a wrong X-Sync-Key.
SyncUnauthorized ==
    /\ sync_pc = "idle"
    /\ Len(sync_hist) < MaxUploads
    /\ sync_hist' = Append(sync_hist, SyncEntry("401", 0))
    /\ UNCHANGED <<sync_data, sync_pc, sync_posts, sync_comments, sync_new, sync_log_id,
                   discVars, crawlVars, schedVars, restVars, fetchVars, storeVars, histVars, runVars>>

\* Lines 481-483: if not data.
SyncNoData ==
    /\ sync_pc = "idle"
    /\ Len(sync_hist) < MaxUploads
    /\ sync_data.empty
    /\ sync_hist' = Append(sync_hist, SyncEntry("400", 0))
    /\ UNCHANGED <<sync_data, sync_pc, sync_posts, sync_comments, sync_new, sync_log_id,
                   discVars, crawlVars, schedVars, restVars, fetchVars, storeVars, histVars, runVars>>

\* Lines 485-491: the body is taken apart and the record created.
SyncStart ==
    /\ sync_pc = "idle"
    /\ Len(sync_hist) < MaxUploads
    /\ ~sync_data.empty
    /\ log_scrape_start(NextLogId(scrape_log))
    /\ clock' = clock + 1
    /\ sync_log_id' = NextLogId(scrape_log)
    /\ sync_posts' = sync_data.posts
    /\ sync_comments' = sync_data.comments
    /\ sync_new' = 0
    /\ sync_pc' = "loop"
    /\ sync_hist' = Append(sync_hist, SyncEntry("running", NextLogId(scrape_log)))
    /\ UNCHANGED <<sync_data, posts, comments, discVars, crawlVars, schedVars, restVars, fetchVars, histVars,
                   runLocals>>

\* Lines 492-493: for post in posts: insert_post(post).
SyncInsertPost ==
    /\ sync_pc = "loop"
    /\ sync_posts # << >>
    /\ insert_post(Head(sync_posts))
    /\ sync_posts' = Tail(sync_posts)
    /\ UNCHANGED <<sync_data, sync_pc, sync_comments, sync_new, sync_log_id, sync_hist,
                   discVars, crawlVars, schedVars, restVars, fetchVars, runVars>>

\* Lines 494-496: insert_comment(comment) and the count.  An IntegrityError
\* is caught nowhere: the request ends with a 500.
SyncInsertComment ==
    /\ sync_pc = "loop"
    /\ sync_posts = << >>
    /\ sync_comments # << >>
    /\ LET comment == Head(sync_comments)
       IN  /\ insert_comment(comment)
           /\ IF CommentOutcome(comment) = "IntegrityError"
              THEN /\ sync_pc' = "idle"
                   /\ SyncEnded("500", 0, 0)
                   /\ UNCHANGED <<sync_comments, sync_new>>
              ELSE /\ sync_new' = sync_new + CountNew(CommentOutcome(comment))
                   /\ IF AppliesStatus(comment, CommentOutcome(comment))
                      THEN /\ sync_pc' = "status"
                           /\ UNCHANGED <<sync_comments, sync_hist>>
                      ELSE /\ sync_pc' = "loop"
                           /\ sync_comments' = Tail(sync_comments)
                           /\ SyncHandled(comment)
    /\ UNCHANGED <<sync_data, sync_posts, sync_log_id, discVars, crawlVars, schedVars, restVars, fetchVars,
                   runVars>>

\* Lines 497-499: update_comment_reply_status(comment['id'], comment['reply_status']).
SyncApplyStatus ==
    /\ sync_pc = "status"
    /\ update_comment_reply_status(Head(sync_comments).id, Head(sync_comments).reply_status)
    /\ sync_comments' = Tail(sync_comments)
    /\ SyncHandled(Head(sync_comments))
    /\ sync_pc' = "loop"
    /\ UNCHANGED <<sync_data, sync_posts, sync_new, sync_log_id, discVars, crawlVars, schedVars,
                   restVars, fetchVars, runVars>>

\* Lines 501-516: the record is finalized and the counts are returned.
SyncEnd ==
    /\ sync_pc = "loop"
    /\ sync_posts = << >>
    /\ sync_comments = << >>
    /\ log_scrape_end(sync_log_id, Len(sync_data.posts), sync_new, "success", "NULL", FALSE)
    /\ clock' = clock + 1
    /\ SyncEnded("200", Len(sync_data.posts), sync_new)
    /\ sync_pc' = "idle"
    /\ UNCHANGED <<sync_data, sync_posts, sync_comments, sync_new, sync_log_id, posts,
                   comments, discVars, crawlVars, schedVars, restVars, fetchVars, histVars,
                   runLocals>>

\* PUT /api/comments/<id>/reply-status: between two uploads a dashboard user
\* gives a stored comment another status.
UserSetsReplyStatus ==
    /\ sync_pc = "idle"
    /\ sync_hist # << >>
    /\ Len(sync_hist) < MaxUploads
    /\ \E id \in CommentIds, st \in ReplyStatuses :
         /\ \E r \in comments : r.id = id /\ r.reply_status # st
         /\ update_comment_reply_status(id, st)
    /\ UNCHANGED <<fetchVars, runVars, extVars>>

SyncIdle ==
    /\ sync_pc = "idle"
    /\ sync_posts = << >>
    /\ sync_comments = << >>
    /\ sync_new = 0
    /\ sync_log_id = 0
    /\ sync_hist = << >>

SyncInit ==
    /\ SyncIdle
    /\ sync_data = EmptyBody

SyncNext ==
    \/ SyncUnauthorized
    \/ SyncNoData
    \/ SyncStart
    \/ SyncInsertPost
    \/ SyncInsertComment
    \/ SyncApplyStatus
    \/ SyncEnd
    \/ UserSetsReplyStatus

-----------------------------------------------------------------------------
(***************************************************************************)
(* The scheduler's daily_job (backend/scheduler.py): it calls run_scrape   *)
(* and, when the run returned new comments, sends the notification and     *)
(* records in the log whether a mail went out.  The run itself is the      *)
(* run_scrape above; what follows it is the step below, which other        *)
(* requests (a sync upload, a triggered scrape) may precede.               *)
(***************************************************************************)

\* send_notification returns the number of mails sent.
SentCounts == {0, 1}

\* SELECT MAX(id) FROM scrape_log WHERE status = 'success'
LastSuccessId(log) ==
    IF \E r \in log : r.status = "success"
    THEN CHOOSE m \in {r.id : r \in {x \in log : x.status = "success"}} :
            \A r \in log : r.status = "success" => r.id <= m
    ELSE 0

\* Mutant of the job's UPDATE: it resets the record it flags.
SetEmailSent_Reset(log, flag) ==
    {IF r.id = LastSuccessId(log)
     THEN [r EXCEPT !.email_sent = flag, !.new_comments_found = 0]
     ELSE r : r \in log}

\* UPDATE scrape_log SET email_sent = ? WHERE id = (SELECT MAX(id) ...)
SetEmailSent(log, flag) ==
    {IF r.id = LastSuccessId(log) THEN [r EXCEPT !.email_sent = flag] ELSE r : r \in log}

\* Lines 27-39: if new_count > 0, after run_scrape has returned.
DailyJobNotify ==
    /\ \E i \in DOMAIN run_hist \ emailed :
         /\ run_hist[i].outcome = "returned"
         /\ run_hist[i].new_comments > 0
         /\ emailed' = emailed \cup {i}
    /\ \E sent \in SentCounts :
         scrape_log' = SetEmailSent(scrape_log, IF sent > 0 THEN 1 ELSE 0)
    /\ UNCHANGED <<end_calls, runLocals, fetchVars, storeVars, histVars, discVars,
                   crawlVars, syncVars, restVars>>

SchedInit == emailed = {}

-----------------------------------------------------------------------------
(***************************************************************************)
(* _discover_posts_from_comments page by page (reddit_scraper.py, lines    *)
(* 93-130): the requests it sends and the cursor each of them carries.     *)
(* The server answers a page for the request without a cursor and one for  *)
(* each cursor; a page is the link_id of its comments and the cursor of    *)
(* the page after it, if any.  Every request is answered.                  *)
(***************************************************************************)

Cursors == {"t1_a", "t1_b"}

WalkPages ==
    [children : {<< >>} \cup {<<HistoryComment(p, "c1", "a")>> : p \in PostIds},
     after : {None} \cup Cursors]

WalkServers == [{None} \cup Cursors -> WalkPages]

\* Mutant of the loop: the cursor of the page is dropped.
NextCursor_Dropped(page, after) == after

\* Line 126: after = data.get('data', {}).get('after')
NextCursor(page, after) == page.after

\* The top-level call; lines 93-94.
WalkCall ==
    /\ walk_pc = "idle"
    /\ walk_pc' = "loop"
    /\ walk_after' = None
    /\ walk_found' = << >>
    /\ walk_reqs' = << >>
    /\ UNCHANGED <<walk_pages, envVars, jobVars, remoteVars, fetchVars, storeVars, histVars, runVars,
                   discVars, crawlVars, syncVars, schedVars>>

\* One turn of the loop, lines 97-128: the request (with the cursor, if
\* there is one), the page's links, the new cursor; `break` on an empty
\* page or a missing cursor, and the end of range(5).
WalkPage ==
    /\ walk_pc = "loop"
    /\ walk_reqs' = Append(walk_reqs, walk_after)
    /\ LET page == walk_pages[walk_after]
       IN  IF page.children = << >>
           THEN /\ walk_pc' = "done"
                /\ UNCHANGED <<walk_after, walk_found>>
           ELSE /\ walk_found' = AddLinks(walk_found, page.children)
                /\ walk_after' = NextCursor(page, walk_after)
                /\ walk_pc' = IF NextCursor(page, walk_after) = None
                                 \/ Len(walk_reqs) + 1 = MAX_PAGES
                              THEN "done" ELSE "loop"
    /\ UNCHANGED <<walk_pages, envVars, jobVars, remoteVars, fetchVars, storeVars, histVars, runVars,
                   discVars, crawlVars, syncVars, schedVars>>

WalkNext == WalkCall \/ WalkPage

WalkIdle ==
    /\ walk_pc = "idle"
    /\ walk_after = None
    /\ walk_reqs = << >>
    /\ walk_found = << >>

WalkInit ==
    /\ WalkIdle
    /\ walk_pages = [c \in {None} \cup Cursors |-> [children |-> << >>, after |-> None]]

-----------------------------------------------------------------------------
(***************************************************************************)
(* The configuration.  config/settings.py reads the environment once, when *)
(* it is imported; reddit_scraper.py binds TEST_MODE and the credentials   *)
(* with `from config.settings import ...` when it is imported in turn.     *)
(* `settings` is what the process holds since; `environ` is what the       *)
(* environment (and the .env file) say now.                                *)
(***************************************************************************)

\* An operator edits the configuration between two runs.
OperatorEditsConfig ==
    /\ run_pc = "idle"
    /\ environ' \in Settings \ {environ}
    /\ UNCHANGED <<walkVars, jobVars, remoteVars, fetchVars, storeVars, histVars, runVars,
                   discVars, crawlVars, syncVars, schedVars>>

\* Import: the process holds what the environment says at its start.
EnvInit == environ = settings

-----------------------------------------------------------------------------
(***************************************************************************)
(* daily_job (src/backend/scheduler.py), statement by statement: it reads  *)
(* the last successful record, calls run_scrape, and when the run returned *)
(* new comments it lists the comments first seen after that record's       *)
(* started_at, passes the list to send_notification and flags a record.    *)
(* job_mark numbers the runs made before the job; the job's own run is the *)
(* next one.                                                               *)
(***************************************************************************)

\* get_last_successful_scrape(): ... WHERE status = 'success'
\* ORDER BY completed_at DESC LIMIT 1.
get_last_successful_scrape(log) ==
    CHOOSE r \in log :
        /\ r.status = "success"
        /\ \A x \in log : x.status = "success" => x.completed_at <= r.completed_at

\* Line 21: last_scrape['started_at'] if last_scrape else '1970-01-01T00:00:00'.
LastTimestamp(log) ==
    IF \E r \in log : r.status = "success" THEN get_last_successful_scrape(log).started_at
    ELSE 0

\* get_new_comments_since(timestamp): comments JOIN posts WHERE
\* first_seen_at > timestamp; the ids of the rows.
get_new_comments_since(timestamp) ==
    {c.id : c \in {r \in comments : r.first_seen_at > timestamp /\ HasId(posts, r.post_id)}}

\* The job has read the last record and has not called run_scrape yet.
JobAboutToScrape == job_pc = "scrape" /\ Len(run_hist) = job_mark

\* The job's own run has ended.
JobRunEnded ==
    /\ job_pc = "scrape"
    /\ Len(run_hist) > job_mark
    /\ run_hist[job_mark + 1].outcome # "running"

\* Lines 19-21: the cron trigger fires.
JobBegin ==
    /\ job_pc = "idle"
    /\ run_pc = "idle"
    /\ Len(run_hist) < MaxRuns
    /\ job_pc' = "scrape"
    /\ job_since' = LastTimestamp(scrape_log)
    /\ job_mark' = Len(run_hist)
    /\ UNCHANGED <<notified, fetchVars, storeVars, histVars, runVars, discVars, crawlVars,
                   syncVars, schedVars, walkVars, envVars, remoteVars>>

\* Lines 27-39: new_count > 0.  The list is made and passed to
\* send_notification, and the UPDATE flags a record.
JobNotify ==
    /\ JobRunEnded
    /\ run_hist[job_mark + 1].outcome = "returned"
    /\ run_hist[job_mark + 1].new_comments > 0
    /\ \E sent \in SentCounts :
         scrape_log' = SetEmailSent(scrape_log, IF sent > 0 THEN 1 ELSE 0)
    /\ notified' = Append(notified,
                     [run |-> job_mark + 1, since |-> job_since,
                      ids |-> get_new_comments_since(job_since),
                      stored |-> {r.id : r \in comments},
                      flagged |-> LastSuccessId(scrape_log)])
    /\ job_pc' = "idle"
    /\ UNCHANGED <<job_since, job_mark, end_calls, runLocals, fetchVars, storeVars, histVars,
                   discVars, crawlVars, syncVars, schedVars, walkVars, envVars, remoteVars>>

\* Lines 40-44: no new comments, or run_scrape raised: nothing is sent.
JobSkip ==
    /\ JobRunEnded
    /\ \/ run_hist[job_mark + 1].outcome = "raised"
       \/ run_hist[job_mark + 1].new_comments = 0
    /\ job_pc' = "idle"
    /\ UNCHANGED <<job_since, job_mark, notified, fetchVars, storeVars, histVars, runVars,
                   discVars, crawlVars, syncVars, schedVars, walkVars, envVars, remoteVars>>

JobInit ==
    /\ job_pc = "idle"
    /\ job_since = 0
    /\ job_mark = 0
    /\ notified = << >>

-----------------------------------------------------------------------------
(***************************************************************************)
(* The sync client (sync_to_cloud.py) on the scraping machine: it reads    *)
(* that machine's store with get_all_posts and get_all_comments_raw and    *)
(* posts the two lists to /api/sync/upload.                                *)
(***************************************************************************)

PostOrder == <<"p1", "p2">>

\* The remote stores: one or both posts, any of the comments on them, each
\* with the reply status the remote operator has given it.
RemoteComments(ps) ==
    UNION {{{[id |-> c, post_id |-> a[c][1], body |-> "x", first_seen_at |-> 0,
              sentiment |-> DefaultSentiment, reply_status |-> a[c][2]] : c \in ids} :
               a \in [ids -> ps \X ReplyStatuses]} : ids \in SUBSET CommentIds}

RemoteStores ==
    UNION {{[posts |-> {[id |-> q, title |-> "a", first_seen_at |-> 0] : q \in ps},
             comments |-> cs] : cs \in RemoteComments(ps)} : ps \in {{"p1"}, {"p1", "p2"}}}

\* The row with the id.
RowOf(table, id) == CHOOSE r \in table : r.id = id

\* The ids of a table in the order given.
StoredIn(table, order) ==
    LET Stored(id) == HasId(table, id) IN SelectSeq(order, Stored)

\* database.py, lines 269-276: SELECT id, title, subreddit, url, created_utc.
get_all_posts(table) ==
    [k \in DOMAIN StoredIn(table, PostOrder) |->
        [id |-> StoredIn(table, PostOrder)[k],
         title |-> RowOf(table, StoredIn(table, PostOrder)[k]).title]]

\* database.py, lines 280-287: SELECT id, post_id, author, body, created_utc,
\* parent_id, score.  The dicts have no key reply_status.
get_all_comments_raw(table) ==
    [k \in DOMAIN StoredIn(table, CommentOrder) |->
        [id |-> StoredIn(table, CommentOrder)[k],
         post_id |-> RowOf(table, StoredIn(table, CommentOrder)[k]).post_id,
         body |-> RowOf(table, StoredIn(table, CommentOrder)[k]).body,
         reply_status |-> "None"]]

\* sync_to_cloud.py, lines 53-66: json={'posts': posts, 'comments': comments}.
SyncBody(store) ==
    [empty |-> FALSE, posts |-> get_all_posts(store.posts),
     comments |-> get_all_comments_raw(store.comments)]

RemoteInit == remote = [posts |-> {}, comments |-> {}]

RestInit == WalkInit /\ EnvInit /\ JobInit /\ RemoteInit


-----------------------------------------------------------------------------
(***************************************************************************)
(* The specifications.                                                     *)
(***************************************************************************)

ExtInit == DiscInit /\ CrawlInit /\ SyncInit /\ SchedInit /\ RestInit

InitFetch == FetchInit /\ StoreInit /\ RunInit /\ ExtInit

SpecFetch == InitFetch /\ [][FetchNext]_vars

InitStore == FetchInit /\ StoreInit /\ RunInit /\ ExtInit

SpecStore == InitStore /\ [][StoreNext]_vars

\* The process starts with an empty database, any configuration, and any
\* source (the mock strategy reads none).
Init ==
    /\ FetchInit
    /\ StoreInit
    /\ RunIdle
    /\ settings \in Settings
    /\ ExtInit
    /\ reddit \in IF Strategy(settings) = "mock" THEN {DefaultSource}
                  ELSE {src \in Sources : Canonical(src)}

Spec == Init /\ [][RunNext]_vars

InitDiscover ==
    /\ FetchInit
    /\ StoreInit
    /\ RunInit
    /\ CrawlInit
    /\ SyncInit
    /\ SchedInit
    /\ RestInit
    /\ disc_in \in DiscHistories
    /\ disc_out = None

SpecDiscover == InitDiscover /\ [][CallDiscover]_vars

\* Post p1 is stored, and any of the first two comments (the id of a
\* load-more stub is not the id of a comment).
InitCrawl ==
    /\ FetchInit
    /\ RunInit
    /\ DiscInit
    /\ SyncInit
    /\ SchedInit
    /\ RestInit
    /\ CrawlIdle
    /\ crawl_in \in CrawlTrees
    /\ posts = {[id |-> "p1", title |-> "a", first_seen_at |-> 0]}
    /\ comments \in {StoredBefore(ids) : ids \in SUBSET CommentIds}
    /\ \A r \in comments : crawl_in[r.id].kind # "more"
    /\ clock = 1
    /\ post_calls = << >>
    /\ comment_calls = << >>
    /\ tags = << >>

SpecCrawl == InitCrawl /\ [][CrawlNext]_vars

\* The same call when the post is not stored: the database is empty.
InitOrphan ==
    /\ FetchInit
    /\ StoreInit
    /\ RunInit
    /\ DiscInit
    /\ SyncInit
    /\ SchedInit
    /\ RestInit
    /\ CrawlIdle
    /\ crawl_in \in CrawlTrees

SpecOrphan == InitOrphan /\ [][CrawlNext]_vars

\* An empty database; the sync client posts the same body at every upload.
InitSync ==
    /\ FetchInit
    /\ StoreInit
    /\ RunInit
    /\ DiscInit
    /\ CrawlInit
    /\ SchedInit
    /\ RestInit
    /\ SyncIdle
    /\ sync_data \in SyncBodies

SpecSync == InitSync /\ [][SyncNext]_vars

\* The uploads of the sync client: the central database is empty, the body
\* is what sync() reads from the remote store.  The body being a non-empty
\* object whose comments have no reply_status, the handler's `if not data`
\* and its status update are never taken.
InitRemote ==
    /\ FetchInit
    /\ StoreInit
    /\ RunInit
    /\ DiscInit
    /\ CrawlInit
    /\ SchedInit
    /\ WalkInit
    /\ EnvInit
    /\ JobInit
    /\ SyncIdle
    /\ remote \in RemoteStores
    /\ sync_data = SyncBody(remote)

NextRemote ==
    \/ SyncStart
    \/ SyncInsertPost
    \/ SyncInsertComment
    \/ SyncEnd

SpecRemote == InitRemote /\ [][NextRemote]_vars

\* The whole engine: scrapes (triggered or the daily job's), sync uploads,
\* status updates by dashboard users and the daily job's notification step.
\* A scrape and an upload are taken one after the other; a status update
\* and the notification step fall between the store calls of either.  The
\* process starts with an empty database; every strategy is configured in
\* some behaviour; the source is a failed listing, or one whose posts answer
\* and which has the comment c1 on post p2 so far; the sync client's body is
\* one of three.
MaxRequests == 2

AllSettings ==
    {cfg \in Settings : cfg.REDDIT_CLIENT_ID = cfg.REDDIT_CLIENT_SECRET /\
                        (cfg.TEST_MODE => ~cfg.REDDIT_CLIENT_ID)}

AllSources ==
    {src \in Sources :
        /\ Canonical(src)
        /\ src.listing_fetch # "403 Client Error"
        /\ src.detail = AllOk
        /\ src.history_fail = 0
        /\ Len(src.history) <= 1
        /\ src.listing_fetch = "ok" =>
              /\ src.tree["c1"] = [present |-> TRUE, post |-> "p2", parent |-> "p2",
                                   kind |-> "t1"]
              /\ \A c \in CommentIds \ {"c1"} : ~src.tree[c].present}

AllBodies ==
    {b \in SyncBodies :
        \/ /\ b.posts = <<[id |-> "p1", title |-> "a"]>>
           /\ b.comments = <<[id |-> "c1", post_id |-> "p1", body |-> "x",
                              reply_status |-> "replied"]>>
        \/ /\ b.posts = << >>
           /\ b.comments = <<[id |-> "c2", post_id |-> "p2", body |-> "x",
                              reply_status |-> "None"]>>
        \/ /\ Len(b.posts) = 2
           /\ b.comments = <<[id |-> "c1", post_id |-> "p1", body |-> "x",
                              reply_status |-> "needs_reply"],
                             [id |-> "c2", post_id |-> "p2", body |-> "x",
                              reply_status |-> "replied"]>>}

InitAll ==
    /\ FetchInit
    /\ StoreInit
    /\ RunIdle
    /\ DiscInit
    /\ CrawlInit
    /\ SyncIdle
    /\ SchedInit
    /\ settings \in AllSettings
    /\ RestInit
    /\ reddit \in IF Strategy(settings) = "mock" THEN {DefaultSource} ELSE AllSources
    /\ sync_data \in AllBodies

\* The requests the process has taken so far.
WithinBudget == Len(run_hist) + Len(sync_hist) < MaxRequests

\* POST /api/scrape/run, or the daily job: run_scrape is called.
TriggerScrape ==
    /\ WithinBudget
    /\ sync_pc = "idle"
    /\ RunScrapeStart

\* POST /api/sync/upload with the right key and a body.
SyncUpload ==
    /\ WithinBudget
    /\ run_pc = "idle"
    /\ SyncStart

\* The source moves on before a request that is still to come.
SourceMoves == WithinBudget /\ SourceChanges

\* PUT /api/comments/<id>/reply-status on a comment nobody has tagged yet,
\* before a request that is still to come.
UserTagsComment ==
    /\ WithinBudget
    /\ UserSetsReplyStatus
    /\ \A id \in CommentIds :
         TagOf(tags', id) # TagOf(tags, id) => TagOf(tags, id).reply_status = "None"

NextAll ==
    \/ TriggerScrape
    \/ RunInsertPost
    \/ RunInsertComment
    \/ RunScrapeReturn
    \/ RunScrapeRaise
    \/ SourceMoves
    \/ SyncUpload
    \/ SyncInsertPost
    \/ SyncInsertComment
    \/ SyncApplyStatus
    \/ SyncEnd
    \/ UserTagsComment
    \/ DailyJobNotify

SpecAll == InitAll /\ [][NextAll]_vars

\* Requests that overlap: the scheduler's thread and the request threads of
\* the web server share the database and nothing else, and no lock keeps a
\* scrape (triggered or the daily job's) and an upload apart.  Each request
\* is one thread; its store calls interleave with those of the other.
ScrapeRequest == WithinBudget /\ RunScrapeStart

UploadRequest == WithinBudget /\ SyncStart

NextConcurrent ==
    \/ ScrapeRequest
    \/ RunInsertPost
    \/ RunInsertComment
    \/ RunScrapeReturn
    \/ RunScrapeRaise
    \/ UploadRequest
    \/ SyncInsertPost
    \/ SyncInsertComment
    \/ SyncApplyStatus
    \/ SyncEnd

SpecConcurrent == InitAll /\ [][NextConcurrent]_vars

\* Three threads over the comments of one stored post: a scrape through the
\* public endpoints, an upload, and the _process_comments call of another
\* scrape that has the post's comment listing in hand.  What the source, the
\* body and the listing hold overlaps in the comment c1; c2 is a reply to c1
\* at the source and a top-level comment in the listing.
OverlapSources ==
    {src \in Sources :
        /\ Canonical(src)
        /\ src.listing_fetch = "ok"
        /\ src.submitted = <<"p1">>
        /\ src.detail = AllOk
        /\ src.tree["c1"] = [present |-> TRUE, post |-> "p1", parent |-> "p1", kind |-> "t1"]
        /\ src.tree["c2"].present =>
              src.tree["c2"].kind = "t1" /\ src.tree["c2"].parent = "c1"}

OverlapBodies ==
    {b \in SyncBodies :
        /\ b.posts = <<[id |-> "p1", title |-> "a"]>>
        /\ \E i \in DOMAIN b.comments : b.comments[i].id = "c1"
        /\ \A i \in DOMAIN b.comments :
             b.comments[i].post_id = "p1" /\ b.comments[i].reply_status = "None"}

OverlapTrees ==
    {w \in CrawlTrees :
        /\ w["c1"].present
        /\ \A c \in CrawlIds :
             w[c].present => w[c].kind = "t1" /\ c \in CommentIds /\ w[c].parent = "p1"}

InitOverlap ==
    /\ FetchInit
    /\ RunIdle
    /\ DiscInit
    /\ SyncIdle
    /\ SchedInit
    /\ CrawlIdle
    /\ settings = [TEST_MODE |-> FALSE, REDDIT_CLIENT_ID |-> FALSE,
                   REDDIT_CLIENT_SECRET |-> FALSE]
    /\ RestInit
    /\ reddit \in OverlapSources
    /\ sync_data \in OverlapBodies
    /\ crawl_in \in OverlapTrees
    /\ posts = {[id |-> "p1", title |-> "a", first_seen_at |-> 0]}
    /\ comments = {}
    /\ clock = 1
    /\ post_calls = << >>
    /\ comment_calls = << >>
    /\ tags = << >>

\* Each of the three threads serves one request.
OverlapScrape == run_hist = << >> /\ RunScrapeStart

OverlapUpload == sync_hist = << >> /\ SyncStart

NextOverlap ==
    \/ OverlapScrape
    \/ RunInsertPost
    \/ RunInsertComment
    \/ RunScrapeReturn
    \/ OverlapUpload
    \/ SyncInsertPost
    \/ SyncInsertComment
    \/ SyncEnd
    \/ CrawlCall
    \/ CrawlInsert
    \/ CrawlReturn

SpecOverlap == InitOverlap /\ [][NextOverlap]_vars

\* The daily job among the other requests.  The database starts empty; the
\* account has one post with the comment c1, and c2 may appear later; the
\* sync client uploads that post with c1.  A scrape and an upload are taken
\* one after the other; the job's statements fall anywhere between them.
MaxJobRequests == 3

JobSources ==
    {src \in OverlapSources : ~src.tree["c2"].present}

JobBodies ==
    {b \in OverlapBodies : Len(b.comments) = 1}

InitJobs ==
    /\ FetchInit
    /\ StoreInit
    /\ RunIdle
    /\ DiscInit
    /\ CrawlInit
    /\ SyncIdle
    /\ SchedInit
    /\ settings = [TEST_MODE |-> FALSE, REDDIT_CLIENT_ID |-> FALSE,
                   REDDIT_CLIENT_SECRET |-> FALSE]
    /\ RestInit
    /\ reddit \in JobSources
    /\ sync_data \in JobBodies

JobBudget == Len(run_hist) + Len(sync_hist) < MaxJobRequests

\* Line 24: the job calls run_scrape.
JobRunScrape ==
    /\ JobAboutToScrape
    /\ sync_pc = "idle"
    /\ RunScrapeStart

\* POST /api/scrape/run.
ManualScrape ==
    /\ JobBudget
    /\ ~JobAboutToScrape
    /\ sync_pc = "idle"
    /\ RunScrapeStart

\* POST /api/sync/upload with the right key and a body.
JobUpload ==
    /\ JobBudget
    /\ ~JobAboutToScrape
    /\ run_pc = "idle"
    /\ SyncStart

\* The cron trigger fires before a request that is still to come.
JobTrigger == JobBudget /\ JobBegin

\* The source moves on before a request that is still to come.
JobSourceMoves == JobBudget /\ SourceChanges

NextJobs ==
    \/ JobTrigger
    \/ JobRunScrape
    \/ JobNotify
    \/ JobSkip
    \/ ManualScrape
    \/ RunInsertPost
    \/ RunInsertComment
    \/ RunScrapeReturn
    \/ RunScrapeRaise
    \/ JobSourceMoves
    \/ JobUpload
    \/ SyncInsertPost
    \/ SyncInsertComment
    \/ SyncEnd

SpecJobs == InitJobs /\ [][NextJobs]_vars

\* The history walk against any server.
InitWalk ==
    /\ FetchInit
    /\ StoreInit
    /\ RunInit
    /\ DiscInit
    /\ CrawlInit
    /\ SyncInit
    /\ SchedInit
    /\ EnvInit
    /\ JobInit
    /\ RemoteInit
    /\ WalkIdle
    /\ walk_pages \in WalkServers

SpecWalk == InitWalk /\ [][WalkNext]_vars

\* Runs of a process whose configuration an operator edits.
InitConfig ==
    /\ FetchInit
    /\ StoreInit
    /\ RunIdle
    /\ settings \in Settings
    /\ reddit \in IF Strategy(settings) = "mock" THEN {DefaultSource} ELSE AllSources
    /\ ExtInit

NextConfig == RunNext \/ OperatorEditsConfig

SpecConfig == InitConfig /\ [][NextConfig]_vars


-----------------------------------------------------------------------------
(***************************************************************************)
(* Properties of the store, stated over the call histories.                *)
(***************************************************************************)

\* The columns insert_comment binds (everything but the two tags).
Ingested(rows) ==
    {[id |-> r.id, post_id |-> r.post_id, body |-> r.body,
      first_seen_at |-> r.first_seen_at] : r \in rows}

Tags(rows) == {[sentiment |-> r.sentiment, reply_status |-> r.reply_status] : r \in rows}

\* The insert_comment calls that returned (did not raise).
Returned(h) == SelectSeq(h, LAMBDA e : e.ret # "IntegrityError")

\* C1: per id, the first insert_post, and the first insert_comment that
\* returns (its post is stored), returns True and every later insert of the id
\* returns False; from the first insert on the store holds exactly one row for
\* the id, and its ingested columns, first_seen_at included, stay those of the
\* first insert whatever the later payloads carry.
Thm_C1_IdempotentInsert ==
    /\ \A id \in DOMAIN post_calls :
         LET h == post_calls[id]
         IN  /\ \A k \in 1..Len(h) :
                  /\ h[k].ret = IF k = 1 THEN "True" ELSE "False"
                  /\ Cardinality(h[k].after) = 1
                  /\ h[k].after = h[1].after
             /\ h # << >> => Rows(posts, id) = h[1].after
    /\ \A id \in DOMAIN comment_calls :
         LET h == comment_calls[id]
             ok == Returned(h)
         IN  /\ \A k \in 1..Len(ok) :
                  /\ ok[k].ret = IF k = 1 THEN "True" ELSE "False"
                  /\ Cardinality(ok[k].after) = 1
                  /\ Ingested(ok[k].after) = Ingested(ok[1].after)
             /\ \A k \in 1..Len(h) :
                  (h[k].post_known /\ \A j \in 1..(k-1) : ~h[j].post_known)
                     => h[k].ret = "True"
             /\ ok # << >> =>
                  /\ Cardinality(Rows(comments, id)) = 1
                  /\ Ingested(Rows(comments, id)) = Ingested(ok[1].after)

\* C1's case: a stored comment was inserted a second time with a payload that
\* differs from the stored row.
Wit_C1_RepeatedInsert ==
    /\ \E id \in DOMAIN comment_calls :
         /\ Len(comment_calls[id]) = 2
         /\ comment_calls[id][1].ret = "True"
         /\ comment_calls[id][2].ret = "False"
         /\ comment_calls[id][2].post_id # comment_calls[id][1].post_id

\* C2: an insert_comment of an id that is already stored leaves the stored
\* sentiment and reply_status as they were, and at all times the stored tags
\* are the last ones set with update_comment_sentiment /
\* update_comment_reply_status (the column defaults when none was set),
\* however the inserts and updates interleave.
Thm_C2_ReinsertKeepsTags ==
    /\ \A id \in DOMAIN comment_calls : \A k \in 1..Len(comment_calls[id]) :
         LET e == comment_calls[id][k]
         IN  e.before # {} => Tags(e.after) = Tags(e.before)
    /\ \A r \in comments :
         /\ r.sentiment = IF TagOf(tags, r.id).sentiment = "None" THEN "neutral"
                          ELSE TagOf(tags, r.id).sentiment
         /\ r.reply_status = IF TagOf(tags, r.id).reply_status = "None" THEN "needs_reply"
                             ELSE TagOf(tags, r.id).reply_status

\* C2's case: a comment whose two tags had been set was inserted again.
Wit_C2_ReinsertAfterUpdate ==
    \E id \in DOMAIN comment_calls : \E k \in 1..Len(comment_calls[id]) :
        /\ Tags(comment_calls[id][k].before) =
              {[sentiment |-> "positive", reply_status |-> "replied"]}
        /\ Rows(comments, id) # {}

\* C3 as stated: every insert_comment whose post_id names no stored post fails
\* with an integrity violation.
Orig_C3_UnknownPostAlwaysFails ==
    \A id \in DOMAIN comment_calls : \A k \in 1..Len(comment_calls[id]) :
        ~comment_calls[id][k].post_known => comment_calls[id][k].ret = "IntegrityError"

\* C3 as amended: an insert_comment of a comment id that is not stored yet,
\* with a post_id for which no post is stored, fails with an integrity
\* violation and adds no comment row (for an id that is already stored the
\* insert is ignored and returns False, whatever its post_id); after
\* insert_post of that post id the post is stored, and the same insert_comment,
\* the id still not stored, succeeds and returns True.
Thm_C3_ForeignKey ==
    /\ \A id \in DOMAIN comment_calls : \A k \in 1..Len(comment_calls[id]) :
         LET e == comment_calls[id][k]
         IN  /\ (e.before = {} /\ ~e.post_known) =>
                   (e.ret = "IntegrityError" /\ e.after = {})
             /\ (e.before = {} /\ e.post_known) =>
                   (e.ret = "True" /\ Cardinality(e.after) = 1)
             /\ e.before # {} => e.ret = "False"
    /\ \A pid \in DOMAIN post_calls : HasId(posts, pid)
    /\ \A r \in comments : HasId(posts, r.post_id)

\* C3's case: an insert_comment failed for its unknown post, the post was then
\* inserted, and the same insert_comment returned True.
Wit_C3_PostThenComment ==
    \E id \in DOMAIN comment_calls :
        /\ Len(comment_calls[id]) = 2
        /\ comment_calls[id][1].ret = "IntegrityError"
        /\ comment_calls[id][2].ret = "True"
        /\ comment_calls[id][2].post_id = comment_calls[id][1].post_id
        /\ comment_calls[id][1].post_id \in DOMAIN post_calls

-----------------------------------------------------------------------------
(***************************************************************************)
(* Properties of the fetch client, stated over the history `requests`.     *)
(***************************************************************************)

RECURSIVE SumWaits(_)
SumWaits(rs) == IF rs = << >> THEN 0 ELSE Head(rs).wait + SumWaits(Tail(rs))

\* The responses one variant gave, in order.
RespsOn(u) ==
    LET on == SelectSeq(requests, LAMBDA r : r.url = u)
    IN  [i \in 1..Len(on) |-> on[i].resp]

Variants == {"old.reddit.com", "www.reddit.com", "other.host"}

\* The preference order the documentation states: old.reddit.com first.
Preference(u) == IF u = "www.reddit.com" THEN 2 ELSE 1

\* C8: a 429 at attempt k (1-based) of a variant is followed by a backoff of
\* 10*k and, while k is below max_retries, by a retry of the same variant; no
\* variant gets more than max_retries requests; a variant answering 429, 429,
\* 200 returns its payload on the third attempt after waits of at least 10+20.
Thm_C8_RateLimitBackoff ==
    /\ waited = SumWaits(requests)
    /\ \A i \in 1..Len(requests) :
         requests[i].resp = "429" =>
           /\ requests[i].wait = 10 * requests[i].attempt
           /\ requests[i].attempt < 3 =>
                IF i < Len(requests)
                THEN /\ requests[i+1].url = requests[i].url
                     /\ requests[i+1].attempt = requests[i].attempt + 1
                ELSE /\ fetch_pc = "request"
                     /\ try_url = requests[i].url
                     /\ attempt = requests[i].attempt
    /\ \A u \in Variants : Len(RespsOn(u)) <= 3
    /\ \A u \in Variants :
         RespsOn(u) = <<"429", "429", "200">> =>
           /\ fetch_result = [kind |-> "return", payload |-> u]
           /\ requests[Len(requests)].attempt = 3
           /\ waited >= 10 + 20

\* C8's case: a variant answered 429, 429, 200 and the call has returned.
Wit_C8_TwoRateLimitsThenOk ==
    /\ RespsOn("old.reddit.com") = <<"429", "429", "200">>
    /\ fetch_result.kind = "return"
    /\ waited = 30

\* C9: a 403 or a connection error ends the attempts on its variant at once,
\* with no backoff wait; the next request, if any, is the first attempt on the
\* next variant, old.reddit.com before www.reddit.com; with no variant left the
\* call raises.  First variant 403 and second variant 200 returns the second
\* variant's payload.
Thm_C9_BlockFallsThrough ==
    /\ \A i \in 1..Len(requests) : \A j \in 1..Len(requests) :
         i < j => Preference(requests[i].url) <= Preference(requests[j].url)
    /\ (fetch_url = "www.reddit.com" /\ requests # << >>) =>
         requests[1].url = "old.reddit.com"
    /\ \A i \in 1..Len(requests) :
         requests[i].resp \in {"403", "ConnectionError"} =>
           /\ requests[i].wait = 0
           /\ \A j \in 1..Len(requests) : j > i => requests[j].url # requests[i].url
           /\ i < Len(requests) =>
                /\ requests[i].url = "old.reddit.com"
                /\ requests[i+1].url = "www.reddit.com"
                /\ requests[i+1].attempt = 1
           /\ i = Len(requests) =>
                IF requests[i].url = "old.reddit.com"
                THEN fetch_pc = "request" /\ try_url = "www.reddit.com" /\ attempt = 0
                ELSE fetch_result.kind = "raise"
    /\ ( /\ RespsOn("old.reddit.com") # << >>
         /\ RespsOn("old.reddit.com")[Len(RespsOn("old.reddit.com"))] = "403"
         /\ RespsOn("www.reddit.com") # << >>
         /\ RespsOn("www.reddit.com")[Len(RespsOn("www.reddit.com"))] = "200" )
       => fetch_result = [kind |-> "return", payload |-> "www.reddit.com"]

\* C9's case: the first variant answered 403, the second 200.
Wit_C9_BlockedThenOk ==
    /\ Len(requests) = 2
    /\ requests[1].url = "old.reddit.com" /\ requests[1].resp = "403"
    /\ requests[2].url = "www.reddit.com" /\ requests[2].resp = "200"
    /\ fetch_result.kind = "return"

\* The requests that captured a variant-fatal error.
FatalIdx == {i \in 1..Len(requests) : requests[i].resp \in {"403", "ConnectionError"}}

LastFatal ==
    LET i == CHOOSE k \in FatalIdx : \A m \in FatalIdx : m <= k
    IN  [kind |-> IF requests[i].resp = "403" THEN "HTTPError403" ELSE "ConnectionError",
         url |-> requests[i].url]

AllWere429 == \A i \in 1..Len(requests) : requests[i].resp = "429"

EveryVariantTried ==
    \A k \in 1..Len(urls_to_try(fetch_url)) :
        \E i \in 1..Len(requests) : requests[i].url = urls_to_try(fetch_url)[k]

\* What C10 expects to be raised: the last captured variant-fatal error, the
\* generic error exactly when every attempt was a 429.
ExpectedFinalError ==
    /\ fetch_result.error =
         IF FatalIdx # {} THEN LastFatal
         ELSE [kind |-> "AllEndpointsFailed", url |-> "None"]
    /\ fetch_result.error.kind = "AllEndpointsFailed" <=> AllWere429

Claim_C11_FailsAfterEveryVariant ==
    fetch_result.kind = "raise" => EveryVariantTried

-----------------------------------------------------------------------------
(***************************************************************************)
(* Properties of the discovery.                                            *)
(***************************************************************************)

\* The comments on the pages the walk requests.
Walked ==
    IF Len(disc_in) <= MAX_PAGES * PageSize THEN disc_in
    ELSE SubSeq(disc_in, 1, MAX_PAGES * PageSize)

\* The first walked comment on post p.
FirstOn(p) ==
    Walked[CHOOSE i \in DOMAIN Walked :
              /\ Walked[i].link_id = p
              /\ \A j \in 1..(i - 1) : Walked[j].link_id # p]

\* C12: discovery returns exactly one entry per distinct link_id of the
\* walked comment-history pages; the entry's title and subreddit are those of
\* the first comment on that post and its permalink is that comment's
\* permalink cut down to /r/<sub>/comments/<post>/<slug>/.
Thm_C12_Discovery ==
    disc_out # None =>
        /\ {e.link_id : e \in Range(disc_out)} = {c.link_id : c \in Range(Walked)}
        /\ \A i, j \in DOMAIN disc_out : disc_out[i].link_id = disc_out[j].link_id => i = j
        /\ \A e \in Range(disc_out) :
             /\ e.title = FirstOn(e.link_id).link_title
             /\ e.subreddit = FirstOn(e.link_id).subreddit
             /\ e.permalink = <<"r", e.subreddit, "comments", e.link_id, "slug">>

\* Comments on 3 distinct posts, one post twice with different metadata, on
\* more than one page: 3 posts discovered.
Wit_C12_ThreePosts ==
    /\ disc_out # None
    /\ Len(disc_in) = 4
    /\ Len(disc_out) = 3
    /\ \E i, j \in DOMAIN disc_in :
         i < j /\ disc_in[i].link_id = disc_in[j].link_id
               /\ disc_in[i].link_title # disc_in[j].link_title

-----------------------------------------------------------------------------
(***************************************************************************)
(* Properties of the run lifecycle.                                        *)
(***************************************************************************)

RunRow(h) == {r \in scrape_log : r.id = h.log_id}

EndCalls(id) == IF id \in DOMAIN end_calls THEN end_calls[id] ELSE 0

Ids(table) == {r.id : r \in table}

\* The error the strategy of run h raised: the end of its sequence of calls.
StrategyError(h) ==
    LET pl == IF h.strategy = "praw" THEN scrape_with_praw(h.source)
              ELSE scrape_with_json(h.source)
    IN  IF pl[Len(pl)].op = "raise" THEN pl[Len(pl)].id ELSE "none"

\* C4: every call of run_scrape has exactly one scrape_log record of its
\* own; the record is 'running' with no log_scrape_end call while the run
\* is under way, and once the run has returned (raised) it is 'success'
\* ('error'), with exactly one log_scrape_end call made for it.
Thm_C4_RunLifecycle ==
    /\ Cardinality(scrape_log) = Len(run_hist)
    /\ \A i \in DOMAIN run_hist :
         LET h == run_hist[i]
         IN  /\ Cardinality(RunRow(h)) = 1
             /\ \A j \in DOMAIN run_hist : j # i => run_hist[j].log_id # h.log_id
             /\ \A r \in RunRow(h) :
                  /\ h.outcome = "running" =>
                        r.status = "running" /\ EndCalls(h.log_id) = 0
                  /\ h.outcome = "returned" =>
                        r.status = "success" /\ EndCalls(h.log_id) = 1
                  /\ h.outcome = "raised" =>
                        r.status = "error" /\ EndCalls(h.log_id) = 1

\* A run that returned, then a run that raised, each finalized once.
Wit_C4_SuccessThenError ==
    /\ Len(run_hist) = 2
    /\ run_hist[1].outcome = "returned"
    /\ run_hist[2].outcome = "raised"
    /\ EndCalls(run_hist[1].log_id) = 1
    /\ EndCalls(run_hist[2].log_id) = 1
    /\ {r.status : r \in scrape_log} = {"success", "error"}

\* C5: when the strategy raises, the run has exactly one record, with status
\* 'error', an error_message that is not NULL (the message of the error),
\* posts_found = new_comments_found = 0 whatever was stored before the
\* error, and the caller gets the error the strategy raised.
Thm_C5_ErrorPath ==
    \A i \in DOMAIN run_hist :
        LET h == run_hist[i]
        IN  h.outcome = "raised" =>
              /\ Cardinality(RunRow(h)) = 1
              /\ h.error # "none"
              /\ h.strategy # "mock" => h.error = StrategyError(h)
              /\ \A r \in RunRow(h) :
                   /\ r.status = "error"
                   /\ r.error_message # "NULL"
                   /\ r.error_message = ErrorMessage(h.error)
                   /\ r.posts_found = 0
                   /\ r.new_comments_found = 0

\* A run that raised after it had stored a post and a comment.
Wit_C5_ErrorAfterProgress ==
    \E i \in DOMAIN run_hist :
        /\ run_hist[i].outcome = "raised"
        /\ run_hist[i].posts_after # run_hist[i].posts_before
        /\ run_hist[i].comments_after # run_hist[i].comments_before

\* C6: for a run that returned, the returned pair is the pair of counts of
\* the run's 'success' record, and new_comments_found is the number of
\* comment ids absent from the store before the run and present after it.
Thm_C6_ReturnedCounts ==
    \A i \in DOMAIN run_hist :
        LET h == run_hist[i]
        IN  h.outcome = "returned" =>
              /\ \A r \in RunRow(h) :
                   /\ r.status = "success"
                   /\ r.posts_found = h.posts_found
                   /\ r.new_comments_found = h.new_comments
              /\ h.new_comments =
                   Cardinality(Ids(h.comments_after) \ Ids(h.comments_before))

\* A run that met a comment it had stored before and a comment new to it.
Wit_C6_OldAndNewComment ==
    \E i \in DOMAIN run_hist :
        /\ run_hist[i].outcome = "returned"
        /\ run_hist[i].comments_before # {}
        /\ run_hist[i].new_comments = 1
        /\ Cardinality(run_hist[i].comments_after) = 2

\* Two finished runs of the public-endpoint strategy, one after the other,
\* against the same source.
SameSourceTwice(i) ==
    /\ i + 1 \in DOMAIN run_hist
    /\ run_hist[i].strategy = "json"
    /\ run_hist[i + 1].strategy = "json"
    /\ run_hist[i].source = run_hist[i + 1].source
    /\ run_hist[i].outcome # "running"
    /\ run_hist[i + 1].outcome # "running"

\* C7: the second of two public-endpoint runs against an unchanged source
\* leaves posts and comments as the first run left them, and reports
\* new_comments_found = 0.
Thm_C7_RepeatedRunIdempotent ==
    \A i \in DOMAIN run_hist :
        SameSourceTwice(i) =>
            /\ run_hist[i + 1].posts_after = run_hist[i].posts_after
            /\ run_hist[i + 1].comments_after = run_hist[i].comments_after
            /\ run_hist[i + 1].new_comments = 0
            /\ \A r \in RunRow(run_hist[i + 1]) : r.new_comments_found = 0

\* Two such runs, the first of which found posts and new comments.
Wit_C7_SecondRunFindsNothing ==
    \E i \in DOMAIN run_hist :
        /\ SameSourceTwice(i)
        /\ run_hist[i].outcome = "returned"
        /\ run_hist[i + 1].outcome = "returned"
        /\ run_hist[i].new_comments = 2
        /\ Cardinality(run_hist[i].posts_after) = 2

\* The comments of kind t1 under post p in a source's trees (a comment's
\* ancestors are of kind t1).
CommentsUnder(src, p) ==
    {c \in CommentIds : src.tree[c].present /\ src.tree[c].post = p /\ src.tree[c].kind = "t1"}

\* The requests whose failure is not caught: the submitted listing, and a
\* page of the comment history.
ListingFails(src) ==
    \/ src.listing_fetch # "ok"
    \/ src.submitted = << >> /\ src.history_fail > 0

\* C13: a public-endpoint run raises exactly when the submitted-listing
\* request or a comment-history page request fails; otherwise it ends with
\* status 'success' whatever detail requests fail, and every post whose
\* detail request succeeded is stored with all its comments.
Thm_C13_DetailFailureSkipped ==
    \A i \in DOMAIN run_hist :
        LET h == run_hist[i]
        IN  (h.strategy = "json" /\ h.outcome # "running") =>
              /\ h.outcome = "raised" <=> ListingFails(h.source)
              /\ h.outcome = "returned" =>
                    /\ \A r \in RunRow(h) : r.status = "success"
                    /\ \A p \in Visible(h.source) :
                         /\ p \in Ids(h.posts_after)
                         /\ CommentsUnder(h.source, p) \subseteq Ids(h.comments_after)

\* The detail request of the first submitted post failed; the second post
\* was crawled and the run succeeded.
Wit_C13_SecondPostCrawled ==
    \E i \in DOMAIN run_hist :
        LET h == run_hist[i]
        IN  /\ h.strategy = "json"
            /\ h.outcome = "returned"
            /\ h.source.submitted = <<"p1", "p2">>
            /\ h.source.detail["p1"] = "fail"
            /\ h.source.detail["p2"] = "ok"
            /\ CommentsUnder(h.source, "p2") # {}
            /\ CommentsUnder(h.source, "p2") \subseteq Ids(h.comments_after)

-----------------------------------------------------------------------------
(***************************************************************************)
(* Properties of the crawler.                                              *)
(***************************************************************************)

\* The nodes of kind t1 that the listing leads to through replies of t1
\* nodes: n steps down from the post.
RECURSIVE ReachableT1(_, _)
ReachableT1(w, n) ==
    IF n = 0 THEN {}
    ELSE LET up == ReachableT1(w, n - 1)
         IN  {c \in DOMAIN w : /\ w[c].present
                               /\ w[c].kind = "t1"
                               /\ w[c].parent \in {"p1"} \cup up}

\* C14: when _process_comments has returned, insert_comment was called
\* exactly once for every reachable t1 node, with the post id of the
\* top-level call, and never for another node; a load-more stub has no
\* record; the value returned is the number of calls that returned True.
Thm_C14_CrawlComplete ==
    crawl_pc = "done" =>
        LET reach == ReachableT1(crawl_in, MaxNodes)
        IN  /\ \A c \in reach :
                 /\ Len(Calls(comment_calls, c)) = 1
                 /\ Calls(comment_calls, c)[1].post_id = "p1"
                 /\ c \in Ids(comments)
            /\ \A c \in CrawlIds \ reach : Calls(comment_calls, c) = << >>
            /\ \A c \in CrawlIds :
                 (crawl_in[c].present /\ crawl_in[c].kind = "more") => c \notin Ids(comments)
            /\ crawl_out = Cardinality({c \in reach : Calls(comment_calls, c)[1].ret = "True"})

\* A tree three levels deep with a load-more stub, one comment stored before.
Wit_C14_NestedWithStub ==
    /\ crawl_pc = "done"
    /\ crawl_in["c2"].parent = "c1"
    /\ crawl_in["c3"].parent = "c2"
    /\ crawl_in["c3"].kind = "t1"
    /\ crawl_in["c4"].kind = "more"
    /\ Calls(comment_calls, "c1")[1].ret = "False"
    /\ crawl_out = 2

-----------------------------------------------------------------------------
(***************************************************************************)
(* Properties of the strategy choice.                                      *)
(***************************************************************************)

\* The sequences of store calls a strategy makes, each ended by its return
\* or its error.
PlansOf(strategy, h) ==
    IF strategy = "mock" THEN scrape_mock(h.now)
    ELSE IF strategy = "praw" THEN {scrape_with_praw(h.source)}
    ELSE {scrape_with_json(h.source)}

IsPrefix(a, b) == Len(a) <= Len(b) /\ a = SubSeq(b, 1, Len(a))

\* The end of a plan that fits how the run ended.
EndsAs(pl, h) ==
    \/ h.outcome = "returned" /\ pl[Len(pl)].op = "return"
    \/ h.outcome = "raised" /\ pl[Len(pl)] = RaiseOp(h.error)

\* C15: the store calls of a run are those of one strategy: mock when
\* TEST_MODE is set, else the authenticated one when client id and secret
\* are both set, else the public-endpoint one; when the run has ended they
\* are all of that strategy's calls up to its return or its error, and
\* nothing more.
Thm_C15_OneStrategy ==
    \A i \in DOMAIN run_hist :
        LET h == run_hist[i]
            chosen == IF h.settings.TEST_MODE THEN "mock"
                      ELSE IF h.settings.REDDIT_CLIENT_ID /\ h.settings.REDDIT_CLIENT_SECRET
                           THEN "praw"
                           ELSE "json"
        IN  /\ h.strategy = chosen
            /\ \E pl \in PlansOf(chosen, h) :
                  /\ IsPrefix(h.calls, SubSeq(pl, 1, Len(pl) - 1))
                  /\ h.outcome # "running" =>
                        h.calls = SubSeq(pl, 1, Len(pl) - 1) /\ EndsAs(pl, h)

\* The authenticated strategy failed after it had made store calls; the run
\* raised.
Wit_C15_PrawFailedAlone ==
    \E i \in DOMAIN run_hist :
        /\ run_hist[i].strategy = "praw"
        /\ run_hist[i].outcome = "raised"
        /\ Len(run_hist[i].calls) >= 2

-----------------------------------------------------------------------------
(***************************************************************************)
(* Properties of the sync upload.                                          *)
(***************************************************************************)

SyncFinished(h) == h.outcome \in {"200", "500"}

\* C16: once an upload has ended, every comment of the body that its loop
\* handled and that carries a reply_status other than 'needs_reply' is stored
\* with that status, whether the comment was new or not; a handled comment
\* with 'needs_reply' or without reply_status that was stored before the
\* upload is stored as it was.  An upload that ends with 200 has handled
\* every comment of the body.
Thm_C16_StatusOverride ==
    \A i \in DOMAIN sync_hist :
        LET h == sync_hist[i]
        IN  SyncFinished(h) =>
              /\ h.outcome = "200" => h.handled = h.body.comments
              /\ \A k \in DOMAIN h.handled :
                   LET c == h.handled[k]
                   IN  /\ HasId(h.comments_after, c.id)
                       /\ Overrides(c) =>
                             \A r \in Rows(h.comments_after, c.id) :
                                 r.reply_status = c.reply_status
                       /\ ~Overrides(c) =>
                             Rows(h.comments_before, c.id) \subseteq h.comments_after

\* A comment stored before the upload with status 'ignored' came with
\* 'replied': it was not counted as new and is stored as 'replied'.
Wit_C16_ExistingOverridden ==
    \E i \in DOMAIN sync_hist :
        LET h == sync_hist[i]
        IN  /\ h.outcome = "200"
            /\ h.new_comments = 0
            /\ \E c \in Range(h.body.comments) :
                 /\ c.reply_status = "replied"
                 /\ \E r \in Rows(h.comments_before, c.id) : r.reply_status = "ignored"
                 /\ \E r \in Rows(h.comments_after, c.id) : r.reply_status = "replied"

\* C17: every authenticated upload with a body has exactly one scrape_log
\* record, and when the request has ended the record is 'success' or
\* 'error', also when an insert failed part-way.
Claim_C17_SyncRecordTerminal ==
    \A i \in DOMAIN sync_hist :
        LET h == sync_hist[i]
        IN  SyncFinished(h) =>
              /\ Cardinality({r \in scrape_log : r.id = h.log_id}) = 1
              /\ \A r \in scrape_log :
                   r.id = h.log_id => r.status \in {"success", "error"}

\* C18: when a body whose upload succeeded is uploaded again, the second
\* upload succeeds, adds no post and no comment, and answers posts_synced = 0
\* and new_comments = 0.
Claim_C18_SecondUploadCountsZero ==
    \A i \in DOMAIN sync_hist :
        (/\ i + 1 \in DOMAIN sync_hist
         /\ sync_hist[i].outcome = "200"
         /\ sync_hist[i + 1].outcome \notin {"running", "401"})
        => LET h == sync_hist[i + 1]
           IN  /\ h.outcome = "200"
               /\ Ids(h.posts_after) = Ids(h.posts_before)
               /\ Ids(h.comments_after) = Ids(h.comments_before)
               /\ h.new_comments = 0
               /\ h.posts_synced = 0

-----------------------------------------------------------------------------
(***************************************************************************)
(* Properties of the whole engine: scrapes, sync uploads, status updates   *)
(* and the daily job's notification step in any order (SpecAll).           *)
(***************************************************************************)

\* Every stored comment names a stored post.
CommentsOwned == \A r \in comments : HasId(posts, r.post_id)

\* A step removes no post and no comment.
NothingRemoved ==
    /\ Ids(posts) \subseteq Ids(posts')
    /\ Ids(comments) \subseteq Ids(comments')

\* C19: in every state reachable by scrapes (of any strategy), sync merges
\* and status updates, the post_id of every stored comment is the id of a
\* stored post, and no step removes a stored post or comment.
Thm_C19_ReferentialIntegrity == [](CommentsOwned) /\ [][NothingRemoved]_vars

\* A scrape has returned and an upload was merged, in this order or the
\* other; two comments on two posts are stored, one of them stored by the
\* scrape and one by the upload, and one carries a status an update set.
Wit_C19_ScrapeAndUploadMerged ==
    /\ \E i \in DOMAIN run_hist :
         run_hist[i].outcome = "returned" /\ run_hist[i].new_comments > 0
    /\ \E j \in DOMAIN sync_hist :
         sync_hist[j].outcome = "200" /\ sync_hist[j].new_comments > 0
    /\ \E r1, r2 \in comments :
         /\ r1.post_id # r2.post_id
         /\ r1.reply_status = "replied"
    /\ CommentsOwned

\* The columns of a record that its finalization writes, besides email_sent.
Finalized(r) ==
    [status |-> r.status, completed_at |-> r.completed_at, posts_found |-> r.posts_found,
     new_comments_found |-> r.new_comments_found, error_message |-> r.error_message]

\* A step keeps every record that is 'success' or 'error', with the columns
\* of its finalization as they are.
TerminalRecordsKept ==
    \A r \in scrape_log :
        r.status \in {"success", "error"} =>
            \E r2 \in scrape_log' : r2.id = r.id /\ Finalized(r2) = Finalized(r)

\* C20: once a scrape_log record has status 'success' or 'error', no scrape,
\* sync merge or scheduler job changes its status, completed_at, posts_found,
\* new_comments_found or error_message; its email_sent flag may change.
Thm_C20_TerminalRecordFrozen == [][TerminalRecordsKept]_vars

\* A record was finalized, the daily job has set its email_sent flag, and a
\* later request has run to its end since: its record is finalized too.
Wit_C20_FlaggedThenLaterRequest ==
    \E r, r2 \in scrape_log :
        /\ r.status = "success"
        /\ r.email_sent = 1
        /\ emailed # {}
        /\ r2.id > r.id
        /\ r2.status \in {"success", "error"}
        /\ r2.completed_at > r.completed_at

-----------------------------------------------------------------------------
(***************************************************************************)
(* Properties of overlapping requests (SpecConcurrent).                    *)
(***************************************************************************)

Running == {r \in scrape_log : r.status = "running"}

\* C21: at most one scrape_log record has status 'running' at any time,
\* however the daily job, the manual trigger and the sync uploads of one
\* process interleave.
Claim_C21_OneRunning == Cardinality(Running) <= 1

-----------------------------------------------------------------------------
(***************************************************************************)
(* Properties of the history walk, page by page (SpecWalk).               *)
(***************************************************************************)

\* The page the k-th request was answered with.
PageOf(k) == walk_pages[walk_reqs[k]]

\* A page after which the walk goes on: it lists a comment and has a cursor.
GoesOn(page) == page.children # << >> /\ page.after # None

\* C22: the walk sends at most 5 requests; the first carries no cursor and
\* each later one the cursor of the page before it; no request follows a
\* page that is empty or has no cursor; and the walk has ended as soon as
\* such a page or the fifth page is in.
Thm_C22_BoundedWalk ==
    /\ Len(walk_reqs) <= MAX_PAGES
    /\ \A k \in DOMAIN walk_reqs :
         /\ k = 1 => walk_reqs[k] = None
         /\ k > 1 => GoesOn(PageOf(k - 1)) /\ walk_reqs[k] = PageOf(k - 1).after
    /\ walk_pc = "done" <=>
         /\ walk_reqs # << >>
         /\ Len(walk_reqs) = MAX_PAGES \/ ~GoesOn(PageOf(Len(walk_reqs)))
    /\ walk_pc = "loop" /\ walk_reqs # << >> => walk_after = PageOf(Len(walk_reqs)).after

\* Every page had a cursor and a comment: the walk ended after the fifth,
\* having followed two different cursors.
Wit_C22_FivePagesThenStop ==
    /\ walk_pc = "done"
    /\ Len(walk_reqs) = MAX_PAGES
    /\ \A k \in DOMAIN walk_reqs : GoesOn(PageOf(k))
    /\ \E j, k \in DOMAIN walk_reqs : j > 1 /\ k > 1 /\ walk_reqs[j] # walk_reqs[k]

-----------------------------------------------------------------------------
(***************************************************************************)
(* Properties of runs under a configuration that changes (SpecConfig).     *)
(***************************************************************************)

\* C23: a run uses the strategy the configuration names when the run starts
\* (the configuration is edited between runs only): with credentials added
\* since the last run, the run in progress is the authenticated one.
Claim_C23_StrategyFromCurrentConfig ==
    run_pc = "try" => run_hist[Len(run_hist)].strategy = Strategy(environ)

-----------------------------------------------------------------------------
(***************************************************************************)
(* Properties of the crawl of a post that is not stored (SpecOrphan).      *)
(***************************************************************************)

\* The comments of the listing the crawl has not got to.
Unattempted == {crawl_plan[k].id : k \in DOMAIN crawl_plan}

\* C24: an IntegrityError raised while one comment is stored (its post is
\* unknown) costs that comment only: the crawl gets to every other comment
\* of the listing and returns its count.
Claim_C24_IntegrityErrorSkipsItem ==
    crawl_pc = "done" =>
        /\ crawl_out # "IntegrityError"
        /\ Cardinality(Unattempted) <= 1

-----------------------------------------------------------------------------
(***************************************************************************)
(* Properties of the sync client's uploads (SpecRemote).                   *)
(***************************************************************************)

\* C25: once an upload of the sync client is merged, every comment that is
\* 'replied' or 'ignored' in the remote store has that status in the
\* central store.
Claim_C25_RemoteStatusPropagates ==
    \A j \in DOMAIN sync_hist :
        sync_hist[j].outcome = "200" =>
            \A rc \in remote.comments :
                rc.reply_status \in {"replied", "ignored"} =>
                    \E c \in sync_hist[j].comments_after :
                        c.id = rc.id /\ c.reply_status = rc.reply_status

-----------------------------------------------------------------------------
(***************************************************************************)
(* Properties of the counts a run reports (Spec).                          *)
(***************************************************************************)

\* The posts a run called insert_post for.
PostsInserted(h) ==
    {h.calls[k].id : k \in {i \in DOMAIN h.calls : h.calls[i].op = "insert_post"}}

\* C26: a public-endpoint run that succeeded reports as posts_found the
\* number of distinct posts it called insert_post for, on the submitted
\* path and on the discovery path alike.
Claim_C26_PostsFoundCountsInserted ==
    \A i \in DOMAIN run_hist :
        run_hist[i].strategy = "json" /\ run_hist[i].outcome = "returned" =>
            /\ run_hist[i].posts_found = Cardinality(PostsInserted(run_hist[i]))
            /\ \A r \in RunRow(run_hist[i]) :
                   r.posts_found = Cardinality(PostsInserted(run_hist[i]))

-----------------------------------------------------------------------------
(***************************************************************************)
(* Properties of overlapping requests (SpecOverlap).                       *)
(***************************************************************************)

RECURSIVE SumNew(_)
SumNew(h) == IF h = << >> THEN 0 ELSE Head(h).new_comments + SumNew(Tail(h))

\* Every request that was started has ended, and none of them failed.
OverlapEnded ==
    /\ run_pc = "idle"
    /\ sync_pc = "idle"
    /\ crawl_pc # "loop"
    /\ crawl_pc = "done" => crawl_plan = << >>
    /\ \A i \in DOMAIN run_hist : run_hist[i].outcome = "returned"
    /\ \A j \in DOMAIN sync_hist : sync_hist[j].outcome = "200"

\* The new-comment counts the ended requests reported.
ReportedNew == SumNew(run_hist) + SumNew(sync_hist) + crawl_new

\* C27: when scrapes and an upload run concurrently over overlapping
\* comments, no id ends up with two records, exactly one insert_comment call
\* found each stored comment new, and the counts the requests report add up
\* to the number of comment records added.
Thm_C27_NewCountedOnce ==
    /\ \A c \in CrawlIds :
         /\ Cardinality(Rows(comments, c)) <= 1
         /\ Rows(comments, c) # {} =>
               Cardinality({k \in DOMAIN Calls(comment_calls, c) :
                               comment_calls[c][k].ret = "True"}) = 1
    /\ OverlapEnded => ReportedNew = Cardinality(comments)

\* A scrape and an upload overlapped in time, the other scrape's crawl ended
\* too, and all three tried to insert c1.
Wit_C27_ThreeTriedSameComment ==
    /\ OverlapEnded
    /\ crawl_pc = "done"
    /\ Len(Calls(comment_calls, "c1")) >= 3
    /\ \E i \in DOMAIN run_hist, j \in DOMAIN sync_hist :
         \E r \in RunRow(run_hist[i]), u \in RunRow(sync_hist[j]) :
            /\ r.started_at < u.completed_at
            /\ u.started_at < r.completed_at

-----------------------------------------------------------------------------
(***************************************************************************)
(* Properties of the daily job (SpecJobs).                                 *)
(***************************************************************************)

\* C28: across the daily jobs, a comment is in at most one of the lists
\* passed to send_notification.
Claim_C28_NotifiedOnce ==
    \A j, k \in DOMAIN notified :
        j < k => notified[j].ids \cap notified[k].ids = {}

\* C29: no stored comment is skipped for good: when a daily job sends a
\* notification, every comment stored by then (by a scheduled run, a run
\* that failed, a triggered run or an upload) is in its list or was in the
\* list of an earlier job.
Claim_C29_NothingSkipped ==
    \A k \in DOMAIN notified :
        notified[k].stored \subseteq UNION {notified[j].ids : j \in 1..k}

\* C30: the record a daily job flags with email_sent is the record of the
\* run the job itself made, whatever completes while the job is running.
Claim_C30_FlagsOwnRecord ==
    \A k \in DOMAIN notified :
        notified[k].flagged = run_hist[notified[k].run].log_id
=============================================================================
